---- MODULE Spec2Model ----
(***************************************************************************)
(* parari: parallel AI-CLI runner over detached git worktrees.             *)
(*                                                                         *)
(* The model covers the worktree lifecycle (git/worktree.rs), the          *)
(* process-global registry and the WorktreeManager (domain/worktree.rs),   *)
(* the TaskRunner (domain/task.rs) and the top-level driver (main.rs).     *)
(*                                                                         *)
(* One step of the model is the code between two suspension points         *)
(* (.await) of the driving task.  Environment taken as given: the file     *)
(* system primitives the removal path uses (remove_dir_all) and            *)
(* tokio::runtime::Builder::build succeed; panics unwind (the default      *)
(* profile).  The git tool may fail wherever the code branches on its      *)
(* exit status, and copy_uncommitted_changes may fail (its `?` on the      *)
(* user's files).  Executor names of one candidate list are distinct, the  *)
(* precondition of create_worktrees.                                       *)
(*                                                                         *)
(* Spec is the worktree lifecycle.  ExecSpec is one call of                *)
(* Executor::execute (executor/*.rs): the adapters, the interleaved        *)
(* capture loop and the child process writing to its two pipes.            *)
(* MergeSpec is the promotion of a worktree into the user's tree           *)
(* (git/merge.rs).  RemoveSpec, SummarySpec and MirrorSpec are calls of    *)
(* the git adapter made on their own: remove_worktree with every outcome   *)
(* of git and of remove_dir_all, get_change_summary on what git status     *)
(* printed, and create_worktree mirroring the user's uncommitted changes.  *)
(* MockSpec is the MockExecutor of the tests (executor/mock.rs).  UiSpec   *)
(* is the selection screen (cli/split_view.rs): the App, handle_event and  *)
(* the loop of select_result_split_view, over results whose texts include  *)
(* one longer than a u16 counts.                                           *)
(* Each specification keeps the variables of the others at rest.           *)
(***************************************************************************)
EXTENDS Integers, Sequences, FiniteSets, TLC

\* ------------------------------------------------------------------ bounds
MAX_WORKTREES == 20

MaxExecutors == 2

MaxExtra == 1

MaxCalls == 3

MaxTicks == 1

MaxLines == 3

MaxLen == 3

MaxEdits == 3

MaxApplies == 2

MaxRemoves == 3

MaxStatusLines == 3

MaxResponses == 2

MaxFileActions == 2

MaxMockCalls == 3

\* --------------------------------------------------------------- constants
Names == {"claude", "codex", "gemini"}

\* Lexicographic rank of an executor name (sort_by_key on the file name).
NameRank(n) == CASE n = "claude" -> 1 [] n = "codex" -> 2 [] n = "gemini" -> 3 [] OTHER -> 0

\* A checkout directory <scratch root>/<timestamp>-<executor name>.
Path(t, n) == [ts |-> t, name |-> n]

NoPath == Path(0, "none")

\* the decimal digits of v, zero-padded to w places
RECURSIVE Pad(_, _)
Pad(v, w) == IF w = 0 THEN <<>> ELSE Pad(v \div 10, w - 1) \o <<v % 10>>

\* mutant: the milliseconds are written without padding
TimestampUnpadded(t) ==
    Pad(2026, 4) \o Pad(1, 2) \o Pad(1, 2) \o Pad(t \div 3600000, 2)
        \o Pad((t \div 60000) % 60, 2) \o Pad((t \div 1000) % 60, 2)
        \o Pad(t % 1000, IF t % 1000 < 10 THEN 1 ELSE IF t % 1000 < 100 THEN 2 ELSE 3)

\* Utc::now().format("%Y%m%d%H%M%S%3f"), the clock counting the milliseconds
\* of one day (2026-01-01)
Timestamp(t) ==
    Pad(2026, 4) \o Pad(1, 2) \o Pad(1, 2) \o Pad(t \div 3600000, 2)
        \o Pad((t \div 60000) % 60, 2) \o Pad((t \div 1000) % 60, 2)
        \o Pad(t % 1000, 3)

\* the directory's file name: <timestamp>-<executor name>
WorktreeName(p) == <<Timestamp(p.ts), "-", p.name>>

\* First timestamp this process can draw: older entries carry 1..ClockStart-1.
ClockStart == MAX_WORKTREES + MaxExtra + 1

ClockEnd == ClockStart + MaxTicks

\* Entries left under the scratch root by earlier processes (other repos).
PreExisting(k) == {Path(t, "codex") : t \in 1..k}

Range(s) == {s[i] : i \in 1..Len(s)}

Injective(s) == \A i, j \in 1..Len(s) : s[i] = s[j] => i = j

CandidateLists == {s \in UNION {[1..k -> Names] : k \in 0..MaxExecutors} : Injective(s)}

VARIABLES
    mode,        \* "main": the binary (main.rs); "lib": a library client (tests)
    executors,   \* the candidate executors, by name, in the caller's order
    isAvailable, \* name -> what is_available() answers
    disk,        \* directories under the scratch root
    gitAdmin,    \* worktrees the repository's git metadata knows
    registry,    \* WORKTREE_REGISTRY.entries (worktree paths, in push order)
    worktrees,   \* WorktreeManager.worktrees
    runner,      \* "none" | "live" | "dropped"
    now,         \* the clock, in milliseconds
    pc,          \* the driver's suspension point
    available,   \* run_with_progress: available_executors
    createIdx,   \* create_worktrees: the loop position
    pending,     \* create_worktree: the path being materialised
    cleanIdx,    \* cleanup: the loop position
    tasks,       \* name -> the executor task's state
    finished,    \* names in the order their tasks finished
    results,     \* what the last run returned (Vec<TaskResult>)
    runRet,      \* what the last run returned: "none" | "Ok" | an error
    selected,    \* main.rs: selected_index (0: none)
    ret,         \* main.rs: what run() returns
    exitCode,    \* the process exit code (-1: still running)
    runs,        \* run calls made on the runner
    cleanups,    \* cleanup calls made by the library client
    created,     \* history: paths this process materialised
    batch,       \* history: WorktreeInfo pushed by the current create_worktrees
    attempts,    \* history: names the current create_worktrees called
                 \* create_worktree for
    inserted,    \* history: paths the manager registered
    handedOut,   \* history: worktree paths returned in TaskResults since the
                 \* runner's list of worktrees was last empty
    adapter,         \* execute: the adapter called ("none": no call)
    cwdExists,       \* execute: working_dir.exists()
    response,        \* MockExecutor: the response configured (or "default")
    xpc,             \* execute: where the call stands
    outPipe,         \* lines the child wrote to stdout, not yet read
    errPipe,         \* lines the child wrote to stderr, not yet read
    outOpen,         \* the child holds the write end of stdout
    errOpen,         \* the child holds the write end of stderr
    arrival,         \* history: the lines in the order the child wrote them
    output_lines,    \* execute_with_ordered_output: output_lines
    stdout_content,  \* execute_with_ordered_output: stdout_content
    stderr_content,  \* execute_with_ordered_output: stderr_content
    execution,       \* what execute returned
    base,            \* the user's tree when the worktrees were created
    dst,             \* the user's tree (apply_changes: target)
    scratch,         \* agent -> the tree of its worktree
    edits,           \* writes and deletions made since the creation
    winner,          \* the agent whose result was applied ("none": not yet)
    promotions,      \* apply_result calls made
    dstBefore,       \* history: the user's tree before the first apply_result
    rmFs,            \* remove_worktree: the file system [disk, gitAdmin]
    rmLog,           \* history: the remove_worktree calls made
    statusLines,     \* the entries `git status --porcelain` prints in the worktree
    summary,         \* what get_change_summary returned (NoSummary: not called)
    userHead,        \* create_worktree: the commit the user is on (path -> content)
    userIndex,       \* create_worktree: the user's index
    userTree,        \* create_worktree: the user's working tree (repo_path)
    worktreeTree,    \* create_worktree: the working tree at worktree_path
    printed,         \* history: what git status --porcelain printed in repo_path
    createRet,       \* what create_worktree returned ("none": not called)
    responses,       \* MockExecutor.responses
    file_actions,    \* MockExecutor.file_actions
    calls,           \* MockExecutor.calls
    mockDirs,        \* working directory -> the entries it holds
    configured,      \* history: the responses in the order they were added
    returned,        \* history: the execute calls made, what each returned and
                     \* what its working directory held then
    app,             \* select_result_split_view: the App
    cached_content,  \* select_result_split_view: which text cached_content holds
    last_selected,   \* select_result_split_view: last_selected
    last_mode,       \* select_result_split_view: last_mode
    viewport_height, \* select_result_split_view: viewport_height of this iteration
    uiPc,            \* select_result_split_view: "idle" | "draw" | "poll" | "done"
    uiRet,           \* what select_result_split_view returned
    frame,           \* history: what the last terminal.draw was given
    confirmStart     \* history: the index selected when input_mode became Confirm

lifeVars == <<mode, executors, isAvailable, disk, gitAdmin, registry, worktrees, runner,
              now, pc, available, createIdx, pending, cleanIdx, tasks, finished, results,
              runRet, selected, ret, exitCode, runs, cleanups, created, batch, attempts,
              inserted, handedOut>>

execVars == <<adapter, cwdExists, response, xpc, outPipe, errPipe, outOpen, errOpen,
              arrival, output_lines, stdout_content, stderr_content, execution>>

mergeVars == <<base, dst, scratch, edits, winner, promotions, dstBefore>>

rmVars == <<rmFs, rmLog>>

\* the git adapter's functions called on their own
sumVars == <<statusLines, summary>>

mirVars == <<userHead, userIndex, userTree, worktreeTree, printed, createRet>>

gitVars == <<rmVars, sumVars, mirVars>>

mockVars == <<responses, file_actions, calls, mockDirs, configured, returned>>

\* what the lifecycle actions leave alone
uiVars == <<app, cached_content, last_selected, last_mode, viewport_height, uiPc, uiRet,
            frame, confirmStart>>

sideVars == <<execVars, mergeVars, gitVars, mockVars, uiVars>>

vars == <<lifeVars, sideVars>>

fsVars == <<disk, gitAdmin>>

inputVars == <<mode, executors, isAvailable>>

runVars == <<available, createIdx, pending, tasks, finished, results, runRet>>

histVars == <<created, batch, attempts, inserted, handedOut>>

\* ------------------------------------------------------------- git adapter

\* mutant: the newest entry sorts first
PathGreater(p, q) == p.ts > q.ts \/ (p.ts = q.ts /\ NameRank(p.name) > NameRank(q.name))

\* file names compare as strings: the timestamp first, then the name
PathLess(p, q) == p.ts < q.ts \/ (p.ts = q.ts /\ NameRank(p.name) < NameRank(q.name))

RECURSIVE SortByName(_)
SortByName(S) ==
    IF S = {} THEN <<>>
    ELSE LET m == CHOOSE p \in S : \A q \in S \ {p} : PathLess(p, q)
         IN <<m>> \o SortByName(S \ {m})

\* mutant: when git fails the directory is left in place
remove_worktree_no_fallback(fs, path, gitFails) ==
    IF path \in fs.gitAdmin /\ path \in fs.disk /\ ~gitFails
    THEN [disk |-> fs.disk \ {path}, gitAdmin |-> fs.gitAdmin \ {path}]
    ELSE fs

\* remove_worktree on the file system fs = [disk, gitAdmin]; gitFails: the
\* forced `git worktree remove` exits non-zero.  git also refuses a path that
\* is no worktree of this repository.
remove_worktree(fs, path, gitFails) ==
    IF path \in fs.gitAdmin /\ path \in fs.disk /\ ~gitFails
    THEN [disk |-> fs.disk \ {path}, gitAdmin |-> fs.gitAdmin \ {path}]
    ELSE LET d == fs.disk \ {path}                     \* remove_dir_all if it exists
         IN [disk |-> d, gitAdmin |-> fs.gitAdmin \cap d]   \* git worktree prune

\* what remove_worktree returns.  git: how the forced `git worktree remove`
\* ended ("spawn_err": the command could not be run, `.output().await?`);
\* eraseOk: remove_dir_all succeeds (its error is returned with `?`).
remove_worktree_result(fs, path, git, eraseOk) ==
    IF git = "spawn_err" THEN "Err"
    ELSE IF git = "exit_zero" THEN "Ok"
    ELSE IF path \in fs.disk /\ ~eraseOk THEN "Err" ELSE "Ok"

\* cleanup_old_worktrees: the loop over the sorted entries
RECURSIVE PruneLoop(_, _, _)
PruneLoop(entries, fs, F) ==
    IF Len(entries) > MAX_WORKTREES
    THEN PruneLoop(Tail(entries), remove_worktree(fs, Head(entries), Head(entries) \in F), F)
    ELSE fs

cleanup_old_worktrees(fs, F) == PruneLoop(SortByName(fs.disk), fs, F)

\* --------------------------------------------------------------- registry

\* mutant: the path is not recorded
register_nothing(reg, path) == reg

register(reg, path) == Append(reg, path)

\* mutant: retain with the test inverted
unregister_inverted(reg, path) == SelectSeq(reg, LAMBDA p : p = path)

unregister(reg, path) == SelectSeq(reg, LAMBDA p : p # path)

\* ---------------------------------------------------------------- manager

WorktreeInfo(p, n) == [path |-> p, executor_name |-> n]

\* mutant: the first entry, whatever its name
get_worktree_first(wts, n) == IF wts = <<>> THEN NoPath ELSE wts[1].path

\* get_worktree: the first entry recorded for the name
get_worktree(wts, n) ==
    IF \E i \in 1..Len(wts) : wts[i].executor_name = n
    THEN wts[CHOOSE i \in 1..Len(wts) :
                 /\ wts[i].executor_name = n
                 /\ \A j \in 1..(i - 1) : wts[j].executor_name # n].path
    ELSE NoPath

\* The loop of Drop and of cleanup over the recorded paths: remove, unregister.
RECURSIVE RemoveAll(_, _, _)
RemoveAll(paths, st, F) ==
    IF paths = <<>> THEN st
    ELSE LET p == Head(paths)
             fs == remove_worktree([disk |-> st.disk, gitAdmin |-> st.gitAdmin], p, p \in F)
         IN RemoveAll(Tail(paths),
                      [disk |-> fs.disk, gitAdmin |-> fs.gitAdmin,
                       registry |-> unregister(st.registry, p)], F)

PathsOf(wts) == [i \in 1..Len(wts) |-> wts[i].path]

\* mutant: the emptiness test inverted
DropManagerInverted(wts, st, F) ==
    IF wts # <<>> THEN st ELSE RemoveAll(PathsOf(wts), st, F)

\* impl Drop for WorktreeManager
DropManager(wts, st, F) ==
    IF wts = <<>> THEN st ELSE RemoveAll(PathsOf(wts), st, F)

\* ------------------------------------------------------------ task runner

\* events: the AgentStatus values passed to ProgressTracker::update_status for
\* this executor (the calls made when a progress sink is given)
\* probe: how the `git status` of get_change_summary ended
IdleTask == [st |-> "idle", cwd |-> NoPath, exec |-> "none", summary |-> "none",
             events |-> <<>>, probe |-> "none"]

\* get_change_summary(..).await.ok(): Err only when git could not be run
\* (`.output().await?`); the exit status is not looked at
change_summary(git) == IF git = "spawn_err" THEN "None" ELSE "Some"

\* mutant: the status follows Ok / Err, not ExecutionResult.success
TerminalStatusOfOk(out) == IF out \in {"ok_true", "ok_false"} THEN "Completed" ELSE "Failed"

\* the status sent once execute has resolved: Completed if execution.success,
\* Failed if not or if execute returned Err
TerminalStatus(out) == IF out = "ok_true" THEN "Completed" ELSE "Failed"

FilterAvailable(cands) == SelectSeq(cands, LAMBDA n : isAvailable[n])

TaskResult(n, t) ==
    [executor_name |-> n, success |-> (t.exec = "ok_true"),
     worktree_path |-> t.cwd, change_summary |-> t.summary]

\* mutant: a result whose success flag is false is dropped like an error
TaskOutputDropsFailures(n, t) == IF t.exec = "ok_true" THEN <<TaskResult(n, t)>> ELSE <<>>

\* mutant: a task whose execute returned Err yields a result as well
TaskOutputKeepsErrors(n, t) == <<TaskResult(n, t)>>

\* what one task's future resolves to: Some(TaskResult) or None
TaskOutput(n, t) == IF t.exec \in {"ok_true", "ok_false"} THEN <<TaskResult(n, t)>> ELSE <<>>

\* into_iter().flatten().collect() over the futures' outputs, in the given order
RECURSIVE Flatten(_, _)
Flatten(order, ts) ==
    IF order = <<>> THEN <<>>
    ELSE TaskOutput(Head(order), ts[Head(order)]) \o Flatten(Tail(order), ts)

\* mutant: the outputs are collected as the futures finish
JoinAllByCompletion(order, ts) == Flatten(finished, ts)

\* join_all(futures).await: the outputs in the order of the futures
JoinAll(order, ts) == Flatten(order, ts)

\* ------------------------------------------------------ executor adapters

Adapters == {"claude", "gemini", "codex", "mock"}

NL == "\n"

Chars == {"a", NL}

\* strings of at most MaxLen characters
Strings == UNION {[1..k -> Chars] : k \in 0..MaxLen}

\* the lines a child writes: the empty line and a non-empty one
LineSet == {<<>>, <<"a">>}

\* the pieces of s between its newlines; cur: the piece being read
RECURSIVE SplitNl(_, _)
SplitNl(s, cur) ==
    IF s = <<>> THEN <<cur>>
    ELSE IF Head(s) = NL THEN <<cur>> \o SplitNl(Tail(s), <<>>)
    ELSE SplitNl(Tail(s), Append(cur, Head(s)))

\* str::lines(): a final line ending is optional, so a last empty piece is
\* no line
lines(s) ==
    LET ps == SplitNl(s, <<>>)
    IN IF ps[Len(ps)] = <<>> THEN SubSeq(ps, 1, Len(ps) - 1) ELSE ps

OutputLine(src, line) == [src |-> src, line |-> line]

\* .map(|line| OutputLine::Stdout(line.to_string())).collect()
Tagged(src, ls) == [i \in 1..Len(ls) |-> OutputLine(src, ls[i])]

\* a value of Result<ExecutionResult>; by: what built the ExecutionResult
OkResult(by, success, out, err, ols, code) ==
    [ok |-> TRUE, err |-> "none", by |-> by, success |-> success, stdout |-> out,
     stderr |-> err, output_lines |-> ols, exit_code |-> code]

ErrResult(e) ==
    [ok |-> FALSE, err |-> e, by |-> "none", success |-> FALSE, stdout |-> <<>>,
     stderr |-> <<>>, output_lines |-> <<>>, exit_code |-> -1]

NoResult == ErrResult("none")

\* ExecutionResult::success(executor_name, stdout)
ExecutionResult_success(out) ==
    OkResult("constructor", TRUE, out, <<>>, Tagged("Stdout", lines(out)), 0)

\* ExecutionResult::failure(executor_name, stderr, exit_code)
ExecutionResult_failure(err, code) ==
    OkResult("constructor", FALSE, <<>>, err, Tagged("Stderr", lines(err)), code)

\* if !content.is_empty() { content.push('\n'); } content.push_str(&line);
PushLine(content, line) ==
    IF content # <<>> THEN content \o <<NL>> \o line ELSE content \o line

\* what with_success / with_failure queued on the mock, or nothing ("default")
MockResponses == [kind : {"success", "failure", "default"}, text : Strings]

NoResponse == [kind |-> "default", text |-> <<>>]

\* no call of execute is modelled
ExecIdle ==
    /\ adapter = "none"
    /\ cwdExists = FALSE
    /\ response = NoResponse
    /\ xpc = "off"
    /\ outPipe = <<>> /\ errPipe = <<>>
    /\ outOpen = FALSE /\ errOpen = FALSE
    /\ arrival = <<>>
    /\ output_lines = <<>>
    /\ stdout_content = <<>> /\ stderr_content = <<>>
    /\ execution = NoResult

\* a caller is about to call adapter.execute(prompt, working_dir)
ExecInit ==
    /\ adapter \in Adapters
    /\ cwdExists \in BOOLEAN
    /\ response \in MockResponses
    /\ adapter # "mock" => response = NoResponse
    /\ response.kind = "default" => response.text = <<>>
    /\ xpc = "call"
    /\ outPipe = <<>> /\ errPipe = <<>>
    /\ outOpen = FALSE /\ errOpen = FALSE
    /\ arrival = <<>>
    /\ output_lines = <<>>
    /\ stdout_content = <<>> /\ stderr_content = <<>>
    /\ execution = NoResult

\* ------------------------------------------------------- promotion engine

Agents == {"claude", "gemini"}

\* the files of a tree, as path components below its root
FilePaths == {<<"README.md">>, <<"src", "main.rs">>, <<"src", "lib.rs">>}

\* .git: the repository's directory, a worktree's link file
GitEntry == <<".git">>

\* a .git below the root: a repository made inside the tree
NestedGit == <<"src", ".git">>

AllPaths == FilePaths \cup {GitEntry, NestedGit}

\* what a path holds when it is a symbolic link
Symlink == "symlink"

Absent == "absent"

\* a tree: what each path holds
EmptyTree == [p \in AllPaths |-> Absent]

\* the user's tree at the creation: README.md committed, src/main.rs or not
BaseTrees ==
    {[p \in AllPaths |-> IF p = GitEntry THEN "repository"
                         ELSE IF p = <<"README.md">> THEN "v0"
                         ELSE IF p = <<"src", "main.rs">> THEN m
                         ELSE Absent] : m \in {"v0", Absent}}

\* git worktree add, copy_uncommitted_changes: the user's files, its own .git
Checkout(tree) == [tree EXCEPT ![GitEntry] = "gitfile"]

IsPrefix(dir, p) == Len(p) > Len(dir) /\ SubSeq(p, 1, Len(dir)) = dir

\* read_dir(dir): the names of its entries
Entries(tree, dir) ==
    {p[Len(dir) + 1] : p \in {q \in AllPaths : tree[q] # Absent /\ IsPrefix(dir, q)}}

\* file_type.is_dir()
is_dir(tree, path) == \E q \in AllPaths : tree[q] # Absent /\ IsPrefix(path, q)

RECURSIVE copy_dir_recursive(_, _, _)

\* mutant: directories are not entered
CopyEntryFilesOnly(name, dir, src, target) ==
    LET path == Append(dir, name)
    IN IF name = ".git" THEN target
       ELSE IF is_dir(src, path) THEN target
       ELSE [target EXCEPT ![path] = src[path]]

\* mutant: an existing target file is removed and not written again
CopyEntryRemoveOnly(name, dir, src, target) ==
    LET path == Append(dir, name)
    IN IF name = ".git" THEN target
       ELSE IF is_dir(src, path) THEN copy_dir_recursive(path, src, target)
       ELSE IF target[path] # Absent THEN [target EXCEPT ![path] = Absent]
       ELSE [target EXCEPT ![path] = src[path]]

\* mutant: .git is skipped at the root of the worktree only
CopyEntryRootGitOnly(name, dir, src, target) ==
    LET path == Append(dir, name)
    IN IF name = ".git" /\ dir = <<>> THEN target
       ELSE IF is_dir(src, path) THEN copy_dir_recursive(path, src, target)
       ELSE IF src[path] = Symlink THEN target
       ELSE [target EXCEPT ![path] = src[path]]

\* one turn of the loop of copy_dir_recursive: .git is skipped, a directory
\* is created and entered, a file replaces the target's, a symbolic link is
\* neither (file_type() does not follow it) and is passed over
CopyEntry(name, dir, src, target) ==
    LET path == Append(dir, name)
    IN IF name = ".git" THEN target
       ELSE IF is_dir(src, path) THEN copy_dir_recursive(path, src, target)
       ELSE IF src[path] = Symlink THEN target
       ELSE [target EXCEPT ![path] = src[path]]

RECURSIVE CopyEntries(_, _, _, _)
CopyEntries(names, dir, src, target) ==
    IF names = {} THEN target
    ELSE LET n == CHOOSE x \in names : TRUE
         IN CopyEntries(names \ {n}, dir, src, CopyEntry(n, dir, src, target))

copy_dir_recursive(dir, src, target) == CopyEntries(Entries(src, dir), dir, src, target)

\* mutant: the target is made equal to the worktree, .git apart
apply_changes_mirror(worktree, target) ==
    [p \in AllPaths |-> IF ".git" \in Range(p) THEN target[p] ELSE worktree[p]]

apply_changes(worktree, target) == copy_dir_recursive(<<>>, worktree, target)

\* mutant: every agent's worktree is applied
apply_result_all(scr, a, target) ==
    LET b == CHOOSE x \in Agents : x # a
    IN apply_changes(scr[b], apply_changes(scr[a], target))

\* domain::apply_result: the worktree of the selected result, onto the target
apply_result(scr, a, target) == apply_changes(scr[a], target)

\* no promotion is modelled
MergeIdle ==
    /\ base = EmptyTree
    /\ dst = EmptyTree
    /\ scratch = [a \in Agents |-> EmptyTree]
    /\ edits = 0
    /\ winner = "none"
    /\ promotions = 0
    /\ dstBefore = EmptyTree

\* the worktrees of the agents have just been created from the user's tree
MergeInit ==
    /\ base \in BaseTrees
    /\ dst = base
    /\ scratch = [a \in Agents |-> Checkout(base)]
    /\ edits = 0
    /\ winner = "none"
    /\ promotions = 0
    /\ dstBefore = EmptyTree

\* ------------------------------------------------------------------- Init

\* no runner exists and none is made
\* ------------------------------------------- git adapter calls at rest
RmIdle ==
    /\ rmFs = [disk |-> {}, gitAdmin |-> {}]
    /\ rmLog = <<>>

NoSummary == [files_added |-> -1, files_modified |-> -1, files_deleted |-> -1,
              changed_files |-> <<>>]

SumIdle ==
    /\ statusLines = <<>>
    /\ summary = NoSummary

\* the paths of the mirrored repository: two files at its root and a file in
\* a directory
RepoPaths == {<<"a">>, <<"b">>, <<"d", "/", "x">>}

NoTree == [p \in RepoPaths |-> Absent]

MirIdle ==
    /\ userHead = NoTree
    /\ userIndex = NoTree
    /\ userTree = NoTree
    /\ worktreeTree = NoTree
    /\ printed = <<>>
    /\ createRet = "none"

GitIdle == RmIdle /\ SumIdle /\ MirIdle

\* the working directories a mock is called in
WorkingDirs == {"w1", "w2"}

\* no MockExecutor is built
MockIdle ==
    /\ responses = <<>>
    /\ file_actions = <<>>
    /\ calls = <<>>
    /\ mockDirs = [w \in WorkingDirs |-> {}]
    /\ configured = <<>>
    /\ returned = <<>>

None == [some |-> FALSE, i |-> 0]

NoSelection == [kind |-> "None", index |-> 0]

\* the String::new() cached_content starts as
EmptyContent == [index |-> 0, mode |-> "none"]

NoApp ==
    [result_infos |-> <<>>, list_state |-> None, current_mode |-> "Log",
     focused_panel |-> "Models", input_mode |-> "Normal", scroll_offset |-> 0,
     content_height |-> 0, search_query |-> <<>>, search_matches |-> <<>>,
     search_match_index |-> 0, result |-> NoSelection]

NoFrame == [drawn |-> FALSE, content |-> EmptyContent, content_height |-> 0,
            selected |-> 0, mode |-> "none"]

NotReturned == [kind |-> "none", index |-> 0]

\* select_result_split_view is not running
UiIdle ==
    /\ app = NoApp
    /\ cached_content = EmptyContent
    /\ last_selected = 0
    /\ last_mode = "Log"
    /\ viewport_height = 0
    /\ uiPc = "idle"
    /\ uiRet = NotReturned
    /\ frame = NoFrame
    /\ confirmStart = 0

LifeIdle ==
    /\ mode = "none"
    /\ executors = <<>>
    /\ isAvailable = [n \in Names |-> FALSE]
    /\ disk = {}
    /\ gitAdmin = {}
    /\ registry = <<>>
    /\ worktrees = <<>>
    /\ runner = "none"
    /\ now = ClockStart
    /\ pc = "off"
    /\ available = <<>>
    /\ createIdx = 0
    /\ pending = NoPath
    /\ cleanIdx = 0
    /\ tasks = [n \in Names |-> IdleTask]
    /\ finished = <<>>
    /\ results = <<>>
    /\ runRet = "none"
    /\ selected = 0
    /\ ret = "pending"
    /\ exitCode = -1
    /\ runs = 0
    /\ cleanups = 0
    /\ created = {}
    /\ batch = <<>>
    /\ attempts = <<>>
    /\ inserted = {}
    /\ handedOut = {}

LifeInit ==
    /\ mode \in {"main", "lib"}
    /\ executors \in CandidateLists
    /\ isAvailable \in [Names -> BOOLEAN]
    /\ \A n \in Names \ Range(executors) : ~isAvailable[n]      \* never probed
    /\ disk \in {PreExisting(0), PreExisting(MAX_WORKTREES + MaxExtra)}
    /\ gitAdmin = {}
    /\ registry = <<>>
    /\ worktrees = <<>>
    /\ runner = "none"
    /\ now = ClockStart
    /\ pc = "start"
    /\ available = <<>>
    /\ createIdx = 0
    /\ pending = NoPath
    /\ cleanIdx = 0
    /\ tasks = [n \in Names |-> IdleTask]
    /\ finished = <<>>
    /\ results = <<>>
    /\ runRet = "none"
    /\ selected = 0
    /\ ret = "pending"
    /\ exitCode = -1
    /\ runs = 0
    /\ cleanups = 0
    /\ created = {}
    /\ batch = <<>>
    /\ attempts = <<>>
    /\ inserted = {}
    /\ handedOut = {}

Init == LifeInit /\ ExecIdle /\ MergeIdle /\ GitIdle /\ MockIdle /\ UiIdle

\* -------------------------------------------------- driver: getting a runner

\* The candidates TaskRunner::run receives: get_executors of the binary keeps
\* the available ones only; a library client passes its list as it is.
Passed == IF mode = "main" THEN FilterAvailable(executors) ELSE executors

\* The driver is suspended in an .await (tokio::select! polls ctrl_c there).
AwaitPcs == {"start", "have_runner", "run_entry", "prune", "create", "copy", "join",
             "apply", "cleanup"}

\* The library client holds the runner and is between two calls.
ClientPcs == {"have_runner", "run_returned", "client"}

FsState == [disk |-> disk, gitAdmin |-> gitAdmin, registry |-> registry]

\* cleanup_all_registered_worktrees; inRuntime: the caller is an async task of
\* a running tokio runtime, where Runtime::block_on panics.
cleanup_all_registered_worktrees(st, inRuntime, F) ==
    IF st.registry = <<>> THEN [st |-> st, panicked |-> FALSE]
    ELSE LET taken == [st EXCEPT !.registry = <<>>]
         IN IF inRuntime
            THEN [st |-> taken, panicked |-> TRUE]
            ELSE [st |-> [RemoveAll(st.registry, st, F) EXCEPT !.registry = <<>>],
                  panicked |-> FALSE]

\* run() of main.rs fails before TaskRunner::new returns a runner.
MainEarlyError ==
    /\ mode = "main" /\ pc = "start"
    /\ ret' = "Error"
    /\ pc' = "returning"
    /\ UNCHANGED <<inputVars, sideVars, fsVars, registry, worktrees, runner, now, runVars, cleanIdx,
                   selected, exitCode, runs, cleanups, histVars>>

\* TaskRunner::new
NewRunner ==
    /\ pc = "start"
    /\ runner' = "live"
    /\ pc' = "have_runner"
    /\ UNCHANGED <<inputVars, sideVars, fsVars, registry, worktrees, now, runVars, cleanIdx,
                   selected, ret, exitCode, runs, cleanups, histVars>>

\* main.rs: get_executors, the empty check, runner.run(...)
GetExecutors ==
    /\ mode = "main" /\ pc = "have_runner"
    /\ IF Passed = <<>>
       THEN /\ ret' = "Error"
            /\ pc' = "returning"
            /\ runs' = runs
       ELSE /\ ret' = ret
            /\ pc' = "run_entry"
            /\ runs' = runs + 1
    /\ UNCHANGED <<inputVars, sideVars, fsVars, registry, worktrees, runner, now, runVars, cleanIdx,
                   selected, exitCode, cleanups, histVars>>

\* a library client calls runner.run(prompt, executors)
ClientRun ==
    /\ mode = "lib" /\ pc \in ClientPcs /\ runs + cleanups < MaxCalls
    /\ runs' = runs + 1
    /\ pc' = "run_entry"
    /\ handedOut' = IF worktrees = <<>> THEN {} ELSE handedOut
    /\ UNCHANGED <<inputVars, sideVars, fsVars, registry, worktrees, runner, now, runVars, cleanIdx,
                   selected, ret, exitCode, cleanups, created, batch, attempts, inserted>>

\* ------------------------------------------------- TaskRunner::run_with_progress

\* mutant: the old worktrees are pruned before the availability filter
RunFilterPruneFirst ==
    /\ pc = "run_entry"
    /\ LET avail == FilterAvailable(Passed)
           fs == cleanup_old_worktrees([disk |-> disk, gitAdmin |-> gitAdmin], {})
       IN /\ disk' = fs.disk
          /\ gitAdmin' = fs.gitAdmin
          /\ IF avail = <<>>
             THEN /\ runRet' = "NoExecutorsAvailable"
                  /\ pc' = "run_returned"
                  /\ UNCHANGED <<available, tasks, finished, results, batch, attempts>>
             ELSE /\ available' = avail
                  /\ tasks' = [n \in Names |-> IdleTask]
                  /\ finished' = <<>>
                  /\ results' = <<>>
                  /\ batch' = <<>>
                  /\ attempts' = <<>>
                  /\ runRet' = "none"
                  /\ pc' = "prune"
    /\ UNCHANGED <<inputVars, sideVars, registry, worktrees, runner, now, createIdx, pending,
                   cleanIdx, selected, ret, exitCode, runs, cleanups, created, inserted,
                   handedOut>>

\* the availability filter and the NoExecutorsAvailable return
RunFilter ==
    /\ pc = "run_entry"
    /\ LET avail == FilterAvailable(Passed)
       IN IF avail = <<>>
          THEN /\ runRet' = "NoExecutorsAvailable"
               /\ pc' = "run_returned"
               /\ UNCHANGED <<available, tasks, finished, results, batch, attempts>>
          ELSE /\ available' = avail
               /\ tasks' = [n \in Names |-> IdleTask]
               /\ finished' = <<>>
               /\ results' = <<>>
               /\ batch' = <<>>
               /\ attempts' = <<>>
               /\ runRet' = "none"
               /\ pc' = "prune"
    /\ UNCHANGED <<inputVars, sideVars, fsVars, registry, worktrees, runner, now, createIdx, pending,
                   cleanIdx, selected, ret, exitCode, runs, cleanups, created, inserted,
                   handedOut>>

\* create_worktrees: git::cleanup_old_worktrees
CleanupOldWorktrees ==
    /\ pc = "prune"
    /\ \E F \in {{}, disk} :
         LET fs == cleanup_old_worktrees([disk |-> disk, gitAdmin |-> gitAdmin], F)
         IN /\ disk' = fs.disk
            /\ gitAdmin' = fs.gitAdmin
    /\ createIdx' = 1
    /\ pc' = "create"
    /\ UNCHANGED <<inputVars, sideVars, registry, worktrees, runner, now, available, pending, cleanIdx,
                   tasks, finished, results, runRet, selected, ret, exitCode, runs, cleanups,
                   histVars>>

\* create_worktree up to the exit status of `git worktree add --detach`
CreateWorktreeAdd ==
    /\ pc = "create"
    /\ \E t \in now..(IF now < ClockEnd THEN now + 1 ELSE now), gitOk \in BOOLEAN :
         LET p == Path(t, available[createIdx])
         IN /\ now' = t
            /\ attempts' = Append(attempts, available[createIdx])
            /\ IF gitOk /\ p \notin disk /\ p \notin gitAdmin
               THEN /\ disk' = disk \cup {p}
                    /\ gitAdmin' = gitAdmin \cup {p}
                    /\ created' = created \cup {p}
                    /\ pending' = p
                    /\ pc' = "copy"
                    /\ runRet' = runRet
               ELSE /\ runRet' = "GitCommand"
                    /\ pc' = "run_returned"
                    /\ UNCHANGED <<disk, gitAdmin, created, pending>>
    /\ UNCHANGED <<inputVars, sideVars, registry, worktrees, runner, available, createIdx, cleanIdx,
                   tasks, finished, results, selected, ret, exitCode, runs, cleanups, batch,
                   inserted, handedOut>>

\* create_worktree from copy_uncommitted_changes on, then register and push
CopyUncommittedChanges ==
    /\ pc = "copy"
    /\ \E copyOk \in BOOLEAN :
         IF copyOk
         THEN LET info == WorktreeInfo(pending, available[createIdx])
              IN /\ registry' = register(registry, pending)
                 /\ worktrees' = Append(worktrees, info)
                 /\ batch' = Append(batch, info)
                 /\ inserted' = inserted \cup {pending}
                 /\ createIdx' = createIdx + 1
                 /\ pc' = IF createIdx = Len(available) THEN "launch" ELSE "create"
                 /\ runRet' = runRet
         ELSE /\ runRet' = "Io"
              /\ pc' = "run_returned"
              /\ UNCHANGED <<registry, worktrees, batch, inserted, createIdx>>
    /\ pending' = NoPath
    /\ UNCHANGED <<inputVars, sideVars, fsVars, runner, now, available, cleanIdx, tasks, finished,
                   results, selected, ret, exitCode, runs, cleanups, created, attempts,
                   handedOut>>

\* the futures are built (get_worktree per executor) and polled: Running, execute
Launch ==
    /\ pc = "launch"
    /\ tasks' = [n \in Names |->
                   IF n \in Range(available)
                   THEN [IdleTask EXCEPT !.st = "executing",
                                         !.cwd = get_worktree(worktrees, n),
                                         !.events = <<"Running">>]
                   ELSE IdleTask]
    /\ pc' = "join"
    /\ UNCHANGED <<inputVars, sideVars, fsVars, registry, worktrees, runner, now, available, createIdx,
                   pending, cleanIdx, finished, results, runRet, selected, ret, exitCode,
                   runs, cleanups, histVars>>

\* executor.execute(&prompt, &worktree.path) resolves
ExecuteReturn(n) ==
    /\ pc = "join" /\ tasks[n].st = "executing"
    /\ \E out \in {"ok_true", "ok_false", "err"} :
         IF out = "err"
         THEN /\ tasks' = [tasks EXCEPT ![n].st = "done", ![n].exec = out,
                                        ![n].events = Append(@, TerminalStatus(out))]
              /\ finished' = Append(finished, n)
         ELSE /\ tasks' = [tasks EXCEPT ![n].st = "summary", ![n].exec = out]
              /\ finished' = finished
    /\ UNCHANGED <<inputVars, sideVars, fsVars, registry, worktrees, runner, now, pc, available,
                   createIdx, pending, cleanIdx, results, runRet, selected, ret, exitCode,
                   runs, cleanups, histVars>>

\* git::get_change_summary(...).await.ok() resolves, Completed / Failed is sent
SummaryReturn(n) ==
    /\ pc = "join" /\ tasks[n].st = "summary"
    /\ \E git \in {"spawn_err", "exit_zero", "exit_nonzero"} :
         tasks' = [tasks EXCEPT ![n].st = "done", ![n].summary = change_summary(git),
                                ![n].probe = git,
                                ![n].events = Append(@, TerminalStatus(tasks[n].exec))]
    /\ finished' = Append(finished, n)
    /\ UNCHANGED <<inputVars, sideVars, fsVars, registry, worktrees, runner, now, pc, available,
                   createIdx, pending, cleanIdx, results, runRet, selected, ret, exitCode,
                   runs, cleanups, histVars>>

\* join_all resolves once every future has; run returns Ok(results)
JoinReturn ==
    /\ pc = "join"
    /\ \A n \in Range(available) : tasks[n].st = "done"
    /\ results' = JoinAll(available, tasks)
    /\ handedOut' = handedOut \cup {results'[i].worktree_path : i \in 1..Len(results')}
    /\ runRet' = "Ok"
    /\ pc' = "run_returned"
    /\ UNCHANGED <<inputVars, sideVars, fsVars, registry, worktrees, runner, now, available, createIdx,
                   pending, cleanIdx, tasks, finished, selected, ret, exitCode, runs,
                   cleanups, created, batch, attempts, inserted>>

\* ------------------------------------------------------ main.rs: after the run

\* run(): the error return, the empty result list, --no-select, the selection
MainAfterRun ==
    /\ mode = "main" /\ pc = "run_returned"
    /\ IF runRet # "Ok"
       THEN /\ ret' = "Error" /\ pc' = "returning"
            /\ UNCHANGED <<selected, cleanIdx>>
       ELSE IF results = <<>>
       THEN /\ pc' = "cleanup" /\ cleanIdx' = 1
            /\ UNCHANGED <<selected, ret>>
       ELSE \/ /\ pc' = "cleanup" /\ cleanIdx' = 1                  \* --no-select
               /\ UNCHANGED <<selected, ret>>
            \/ /\ ret' \in {"UserCancelled", "Error"}                 \* select_result(..)?
               /\ pc' = "returning"
               /\ UNCHANGED <<selected, cleanIdx>>
            \/ /\ selected' \in 1..Len(results)                       \* an index
               /\ pc' = "apply"
               /\ UNCHANGED <<ret, cleanIdx>>
    /\ UNCHANGED <<inputVars, sideVars, fsVars, registry, worktrees, runner, now, runVars, exitCode,
                   runs, cleanups, histVars>>

\* domain::apply_result(selected_result, &working_dir).await?
ApplyResult ==
    /\ mode = "main" /\ pc = "apply"
    /\ \E applyOk \in BOOLEAN :
         IF applyOk
         THEN /\ pc' = "cleanup" /\ cleanIdx' = 1 /\ ret' = ret
         ELSE /\ pc' = "returning" /\ ret' = "Error" /\ cleanIdx' = cleanIdx
    /\ UNCHANGED <<inputVars, sideVars, fsVars, registry, worktrees, runner, now, runVars, selected,
                   exitCode, runs, cleanups, histVars>>

\* ------------------------------------------------- WorktreeManager::cleanup

\* a library client calls runner.cleanup()
ClientCleanup ==
    /\ mode = "lib" /\ pc \in ClientPcs /\ runs + cleanups < MaxCalls
    /\ cleanups' = cleanups + 1
    /\ cleanIdx' = 1
    /\ pc' = "cleanup"
    /\ UNCHANGED <<inputVars, sideVars, fsVars, registry, worktrees, runner, now, runVars, selected,
                   ret, exitCode, runs, histVars>>

\* One turn of cleanup's loop (remove_worktree, unregister); after the last
\* one the list is cleared and cleanup returns Ok(()).
CleanupStep ==
    /\ pc = "cleanup"
    /\ IF worktrees = <<>>
       THEN UNCHANGED <<disk, gitAdmin, registry, worktrees, cleanIdx>>
       ELSE \E gitFails \in BOOLEAN :
              LET p == worktrees[cleanIdx].path
                  fs == remove_worktree([disk |-> disk, gitAdmin |-> gitAdmin], p, gitFails)
              IN /\ disk' = fs.disk
                 /\ gitAdmin' = fs.gitAdmin
                 /\ registry' = unregister(registry, p)
                 /\ worktrees' = IF cleanIdx = Len(worktrees) THEN <<>> ELSE worktrees
                 /\ cleanIdx' = cleanIdx + 1
    /\ IF worktrees = <<>> \/ cleanIdx = Len(worktrees)
       THEN IF mode = "main"
            THEN ret' = "Ok" /\ pc' = "returning"
            ELSE ret' = ret /\ pc' = "client"
       ELSE ret' = ret /\ pc' = pc
    /\ UNCHANGED <<inputVars, sideVars, runner, now, runVars, selected, exitCode, runs, cleanups,
                   histVars>>

\* ------------------------------------------------------------- the ends

\* a library client lets the runner go out of scope
ClientDrop ==
    /\ mode = "lib" /\ pc \in ClientPcs /\ runner = "live"
    /\ \E F \in {{}, disk} :
         LET st == DropManager(worktrees, FsState, F)
         IN /\ disk' = st.disk
            /\ gitAdmin' = st.gitAdmin
            /\ registry' = st.registry
    /\ runner' = "dropped"
    /\ pc' = "dropped"
    /\ UNCHANGED <<inputVars, sideVars, worktrees, now, runVars, cleanIdx, selected, ret, exitCode,
                   runs, cleanups, histVars>>

ExitCodeOf(r) == IF r \in {"Ok", "UserCancelled"} THEN 0 ELSE 1

\* main(): run() has returned (its locals are dropped), the registry drain,
\* the exit code
MainReturn ==
    /\ mode = "main" /\ pc = "returning"
    /\ \E F \in {{}, disk} :
         LET dropped == IF runner = "live" THEN DropManager(worktrees, FsState, F)
                        ELSE FsState
             drained == cleanup_all_registered_worktrees(dropped, TRUE, F)
         IN /\ disk' = drained.st.disk
            /\ gitAdmin' = drained.st.gitAdmin
            /\ registry' = drained.st.registry
            /\ exitCode' = IF drained.panicked THEN 101 ELSE ExitCodeOf(ret)
    /\ runner' = IF runner = "live" THEN "dropped" ELSE runner
    /\ pc' = "exited"
    /\ UNCHANGED <<inputVars, sideVars, worktrees, now, runVars, cleanIdx, selected, ret, runs,
                   cleanups, histVars>>

\* main(): ctrl_c() wins the select!.  The handler drains the registry and
\* exits 130; a panic inside it unwinds through main, dropping the run()
\* future and the runner it owns, and the process ends with 101.
Interrupt ==
    /\ mode = "main" /\ pc \in AwaitPcs
    /\ \E F \in {{}, disk} :
         LET drained == cleanup_all_registered_worktrees(FsState, TRUE, F)
             unwound == IF drained.panicked /\ runner = "live"
                        THEN DropManager(worktrees, drained.st, F)
                        ELSE drained.st
         IN /\ disk' = unwound.disk
            /\ gitAdmin' = unwound.gitAdmin
            /\ registry' = unwound.registry
            /\ exitCode' = IF drained.panicked THEN 101 ELSE 130
            /\ runner' = IF drained.panicked /\ runner = "live" THEN "dropped" ELSE runner
    /\ pc' = "exited"
    /\ UNCHANGED <<inputVars, sideVars, worktrees, now, runVars, cleanIdx, selected, ret, runs,
                   cleanups, histVars>>

Next ==
    \/ MainEarlyError
    \/ NewRunner
    \/ GetExecutors
    \/ ClientRun
    \/ RunFilter
    \/ CleanupOldWorktrees
    \/ CreateWorktreeAdd
    \/ CopyUncommittedChanges
    \/ Launch
    \/ \E n \in Names : ExecuteReturn(n)
    \/ \E n \in Names : SummaryReturn(n)
    \/ JoinReturn
    \/ MainAfterRun
    \/ ApplyResult
    \/ ClientCleanup
    \/ CleanupStep
    \/ ClientDrop
    \/ MainReturn
    \/ Interrupt

Spec == Init /\ [][Next]_vars

\* ============================================== Executor::execute, one call

Streams == {"Stdout", "Stderr"}

Pipe(src) == IF src = "Stdout" THEN outPipe ELSE errPipe

Open(src) == IF src = "Stdout" THEN outOpen ELSE errOpen

\* the child process runs: execute is past the spawn and before the return
ChildRuns == xpc \in {"select", "drain_Stdout", "drain_Stderr", "wait", "output"}

\* reader.next_line() is ready: a line is buffered, or the stream has ended
Ready(src) == Pipe(src) # <<>> \/ ~Open(src)

\* the bytes of a pipe: every line with its line ending
RECURSIVE Raw(_)
Raw(ls) == IF ls = <<>> THEN <<>> ELSE Head(ls) \o <<NL>> \o Raw(Tail(ls))

\* ClaudeExecutor, GeminiExecutor, CodexExecutor: execute up to the spawn
ExecuteSpawn ==
    /\ xpc = "call" /\ adapter \in {"claude", "gemini", "codex"}
    /\ IF ~cwdExists
       THEN /\ execution' = ErrResult("WorkingDirectoryNotFound")
            /\ xpc' = "returned"
            /\ UNCHANGED <<outOpen, errOpen>>
       ELSE \E spawnOk \in BOOLEAN :
              IF spawnOk
              THEN /\ xpc' = IF adapter = "codex" THEN "output" ELSE "select"
                   /\ outOpen' = TRUE /\ errOpen' = TRUE
                   /\ execution' = execution
              ELSE /\ execution' = ErrResult("Io")
                   /\ xpc' = "returned"
                   /\ UNCHANGED <<outOpen, errOpen>>
    /\ UNCHANGED <<lifeVars, mergeVars, gitVars, mockVars, uiVars, adapter, cwdExists, response, outPipe, errPipe, arrival,
                   output_lines, stdout_content, stderr_content>>

\* responses.pop(), or the default success
MockResponse(resp) ==
    CASE resp.kind = "success" -> ExecutionResult_success(resp.text)
      [] resp.kind = "failure" -> ExecutionResult_failure(resp.text, 1)
      [] OTHER -> ExecutionResult_success(<<>>)

\* MockExecutor::execute: the call is recorded, the file actions are
\* performed (they create what they need under working_dir), the response
MockExecute ==
    /\ xpc = "call" /\ adapter = "mock"
    /\ \E actionsOk \in BOOLEAN :
         execution' = IF actionsOk THEN MockResponse(response) ELSE ErrResult("Io")
    /\ xpc' = "returned"
    /\ UNCHANGED <<lifeVars, mergeVars, gitVars, mockVars, uiVars, adapter, cwdExists, response, outPipe, errPipe, outOpen, errOpen,
                   arrival, output_lines, stdout_content, stderr_content>>

\* the child writes one line to one of its pipes
ChildWrite(src) ==
    /\ ChildRuns /\ Open(src) /\ Len(arrival) < MaxLines
    /\ \E line \in LineSet :
         /\ arrival' = Append(arrival, OutputLine(src, line))
         /\ IF src = "Stdout"
            THEN outPipe' = Append(outPipe, line) /\ errPipe' = errPipe
            ELSE errPipe' = Append(errPipe, line) /\ outPipe' = outPipe
    /\ UNCHANGED <<lifeVars, mergeVars, gitVars, mockVars, uiVars, adapter, cwdExists, response, xpc, outOpen, errOpen,
                   output_lines, stdout_content, stderr_content, execution>>

\* the child closes one of its pipes (at the latest when it exits)
ChildClose(src) ==
    /\ ChildRuns /\ Open(src)
    /\ IF src = "Stdout"
       THEN outOpen' = FALSE /\ errOpen' = errOpen
       ELSE errOpen' = FALSE /\ outOpen' = outOpen
    /\ UNCHANGED <<lifeVars, mergeVars, gitVars, mockVars, uiVars, adapter, cwdExists, response, xpc, outPipe, errPipe, arrival,
                   output_lines, stdout_content, stderr_content, execution>>

\* Ok(Some(line)): the line goes onto its side's content and onto output_lines
TakeLine(src) ==
    /\ output_lines' = Append(output_lines, OutputLine(src, Head(Pipe(src))))
    /\ IF src = "Stdout"
       THEN /\ stdout_content' = PushLine(stdout_content, Head(outPipe))
            /\ outPipe' = Tail(outPipe)
            /\ UNCHANGED <<stderr_content, errPipe>>
       ELSE /\ stderr_content' = PushLine(stderr_content, Head(errPipe))
            /\ errPipe' = Tail(errPipe)
            /\ UNCHANGED <<stdout_content, outPipe>>

\* tokio::select! completes with the branch of src (any ready branch may be
\* the one taken): a line, the end of the stream, or a read error
SelectBranch(src) ==
    /\ xpc = "select" /\ Ready(src)
    /\ IF Pipe(src) # <<>>
       THEN \E readOk \in BOOLEAN :
              IF readOk
              THEN TakeLine(src) /\ UNCHANGED <<xpc, execution>>
              ELSE /\ execution' = ErrResult("Io")
                   /\ xpc' = "returned"
                   /\ UNCHANGED <<output_lines, stdout_content, stderr_content, outPipe,
                                  errPipe>>
       ELSE /\ xpc' = IF src = "Stdout" THEN "drain_Stderr" ELSE "drain_Stdout"
            /\ UNCHANGED <<output_lines, stdout_content, stderr_content, outPipe, errPipe,
                           execution>>
    /\ UNCHANGED <<lifeVars, mergeVars, gitVars, mockVars, uiVars, adapter, cwdExists, response, outOpen, errOpen, arrival>>

\* while let Ok(Some(line)) = reader.next_line().await: one turn, or the break
Drain(src) ==
    /\ xpc = (IF src = "Stdout" THEN "drain_Stdout" ELSE "drain_Stderr") /\ Ready(src)
    /\ IF Pipe(src) # <<>>
       THEN \E readOk \in BOOLEAN :
              IF readOk
              THEN TakeLine(src) /\ xpc' = xpc
              ELSE /\ xpc' = "wait"
                   /\ UNCHANGED <<output_lines, stdout_content, stderr_content, outPipe,
                                  errPipe>>
       ELSE /\ xpc' = "wait"
            /\ UNCHANGED <<output_lines, stdout_content, stderr_content, outPipe, errPipe>>
    /\ UNCHANGED <<lifeVars, mergeVars, gitVars, mockVars, uiVars, adapter, cwdExists, response, outOpen, errOpen, arrival,
                   execution>>

\* child.wait().await?, then the ExecutionResult
WaitChild ==
    /\ xpc = "wait" /\ ~outOpen /\ ~errOpen
    /\ \E code \in {0, 1}, waitOk \in BOOLEAN :
         execution' = IF waitOk
                      THEN OkResult("capture", code = 0, stdout_content, stderr_content,
                                    output_lines, code)
                      ELSE ErrResult("Io")
    /\ xpc' = "returned"
    /\ UNCHANGED <<lifeVars, mergeVars, gitVars, mockVars, uiVars, adapter, cwdExists, response, outPipe, errPipe, outOpen, errOpen,
                   arrival, output_lines, stdout_content, stderr_content>>

\* CodexExecutor::execute: Command::output() gathers both pipes to the end;
\* the struct literal of codex.rs names no output_lines
CodexOutput ==
    /\ xpc = "output" /\ ~outOpen /\ ~errOpen
    /\ \E code \in {0, 1}, outputOk \in BOOLEAN :
         execution' = IF outputOk
                      THEN OkResult("literal", code = 0, Raw(outPipe), Raw(errPipe), <<>>, code)
                      ELSE ErrResult("Io")
    /\ outPipe' = <<>> /\ errPipe' = <<>>
    /\ xpc' = "returned"
    /\ UNCHANGED <<lifeVars, mergeVars, gitVars, mockVars, uiVars, adapter, cwdExists, response, outOpen, errOpen, arrival,
                   output_lines, stdout_content, stderr_content>>

ExecNext ==
    \/ ExecuteSpawn
    \/ MockExecute
    \/ \E src \in Streams : ChildWrite(src)
    \/ \E src \in Streams : ChildClose(src)
    \/ \E src \in Streams : SelectBranch(src)
    \/ \E src \in Streams : Drain(src)
    \/ WaitChild
    \/ CodexOutput

ExecStart == LifeIdle /\ ExecInit /\ MergeIdle /\ GitIdle /\ MockIdle /\ UiIdle

ExecSpec == ExecStart /\ [][ExecNext]_vars

\* ================================== promotion of a worktree, git/merge.rs

\* the worktrees exist and nothing was applied yet: the agents and the user
\* work on their trees
Working == base # EmptyTree /\ promotions = 0 /\ edits < MaxEdits

\* an agent writes a file of its worktree (FileAction::Write)
AgentWrite(a, f) ==
    /\ Working
    /\ scratch' = [scratch EXCEPT ![a][f] = a]
    /\ edits' = edits + 1
    /\ UNCHANGED <<lifeVars, execVars, gitVars, mockVars, uiVars, base, dst, winner, promotions, dstBefore>>

\* an agent deletes a file of its worktree (FileAction::Delete)
AgentDelete(a, f) ==
    /\ Working /\ scratch[a][f] # Absent
    /\ scratch' = [scratch EXCEPT ![a][f] = Absent]
    /\ edits' = edits + 1
    /\ UNCHANGED <<lifeVars, execVars, gitVars, mockVars, uiVars, base, dst, winner, promotions, dstBefore>>

\* an agent replaces a file of its worktree by a symbolic link, or adds one
AgentSymlink(a, f) ==
    /\ Working /\ scratch[a][f] # Symlink
    /\ scratch' = [scratch EXCEPT ![a][f] = Symlink]
    /\ edits' = edits + 1
    /\ UNCHANGED <<lifeVars, execVars, gitVars, mockVars, uiVars, base, dst, winner, promotions, dstBefore>>

\* an agent makes a repository inside its worktree (src/.git)
AgentGitInit(a) ==
    /\ Working /\ scratch[a][NestedGit] = Absent
    /\ scratch' = [scratch EXCEPT ![a][NestedGit] = a]
    /\ edits' = edits + 1
    /\ UNCHANGED <<lifeVars, execVars, gitVars, mockVars, uiVars, base, dst, winner, promotions, dstBefore>>

\* the user makes a repository inside the target (src/.git)
UserGitInit ==
    /\ Working /\ dst[NestedGit] = Absent
    /\ dst' = [dst EXCEPT ![NestedGit] = "user"]
    /\ edits' = edits + 1
    /\ UNCHANGED <<lifeVars, execVars, gitVars, mockVars, uiVars, base, scratch, winner, promotions, dstBefore>>

\* the user changes, adds or deletes a file of the target while the agents run
UserEdit(f) ==
    /\ Working
    /\ \E c \in {"user", Absent} :
         /\ c # dst[f]
         /\ dst' = [dst EXCEPT ![f] = c]
    /\ edits' = edits + 1
    /\ UNCHANGED <<lifeVars, execVars, gitVars, mockVars, uiVars, base, scratch, winner, promotions, dstBefore>>

\* apply_result(selected_result, &working_dir), once or again with the same
\* result
Promote(a) ==
    /\ base # EmptyTree /\ promotions < MaxApplies
    /\ winner \in {"none", a}
    /\ dst' = apply_result(scratch, a, dst)
    /\ dstBefore' = IF promotions = 0 THEN dst ELSE dstBefore
    /\ winner' = a
    /\ promotions' = promotions + 1
    /\ UNCHANGED <<lifeVars, execVars, gitVars, mockVars, uiVars, base, scratch, edits>>

MergeNext ==
    \/ \E a \in Agents, f \in FilePaths : AgentWrite(a, f)
    \/ \E a \in Agents, f \in FilePaths : AgentDelete(a, f)
    \/ \E f \in FilePaths : UserEdit(f)
    \/ \E a \in Agents, f \in FilePaths : AgentSymlink(a, f)
    \/ \E a \in Agents : AgentGitInit(a)
    \/ UserGitInit
    \/ \E a \in Agents : Promote(a)

MergeStart == LifeIdle /\ ExecIdle /\ MergeInit /\ GitIdle /\ MockIdle /\ UiIdle

MergeSpec == MergeStart /\ [][MergeNext]_vars

\* ================================================================ claims

Count(seq, n) == Cardinality({i \in 1..Len(seq) : seq[i].executor_name = n})

NamesOf(seq) == [i \in 1..Len(seq) |-> seq[i].executor_name]

ExecReturned(n) == tasks[n].exec \in {"ok_true", "ok_false"}

\* cleanup() has just returned Ok(()) to its caller
AfterCleanup == pc = "client" \/ (pc = "returning" /\ ret = "Ok")

\* C1: once the executor tasks of a run are launched, the create call of that
\* run has recorded exactly one checkout for every available candidate and
\* none for an unavailable one (nor was a directory ever materialised for an
\* unavailable candidate), and the launched tasks have pairwise different
\* working directories, each a recorded checkout.
C1_OneCheckoutPerAvailableExecutor ==
    /\ \A p \in created : isAvailable[p.name]
    /\ pc = "join" =>
         /\ \A n \in Range(available) : Count(batch, n) = 1
         /\ \A n \in Range(executors) : ~isAvailable[n] => Count(batch, n) = 0
         /\ \A n \in Range(available) :
              /\ tasks[n].cwd # NoPath
              /\ \E i \in 1..Len(worktrees) :
                   /\ worktrees[i].path = tasks[n].cwd
                   /\ worktrees[i].executor_name = n
         /\ \A n, m \in Range(available) : n # m => tasks[n].cwd # tasks[m].cwd

\* two tasks have been launched on two checkouts
C1_Witness ==
    /\ pc = "join" /\ Len(available) = 2
    /\ tasks[available[1]].st = "executing" /\ tasks[available[2]].st = "executing"
    /\ Len(batch) = 2

\* C2: whatever the order in which the tasks finished, the list run returns
\* names the executors whose execute returned a result in the order of the
\* available candidates, and each TaskResult's worktree_path is a checkout the
\* manager recorded for the executor named in it.
C2_ResultsInCandidateOrder ==
    (pc = "run_returned" /\ runRet = "Ok") =>
        /\ NamesOf(results) = SelectSeq(available, ExecReturned)
        /\ \A i \in 1..Len(results) :
             \E j \in 1..Len(worktrees) :
                /\ worktrees[j].path = results[i].worktree_path
                /\ worktrees[j].executor_name = results[i].executor_name

\* the second candidate finished first and both are in the list
C2_Witness ==
    /\ pc = "run_returned" /\ runRet = "Ok"
    /\ Len(results) = 2 /\ Len(finished) = 2
    /\ finished[1] = available[2]

\* C3: a task whose execute returned an error contributes no TaskResult and
\* does not end the run: run returns Ok only when every launched task is done,
\* with exactly one TaskResult per executor whose execute returned a result
\* (success true or false), and an error return of run comes from before the
\* launch.
C3_FailingSiblingDropsOnlyItself ==
    /\ (pc = "run_returned" /\ runRet = "Ok") =>
          \A n \in Range(available) :
             /\ tasks[n].st = "done"
             /\ Count(results, n) = IF ExecReturned(n) THEN 1 ELSE 0
             /\ \A i \in 1..Len(results) :
                  results[i].executor_name = n =>
                     results[i].success = (tasks[n].exec = "ok_true")
    /\ (pc = "join" /\ \E n \in Names : tasks[n].exec = "err") => runRet = "none"
    /\ (pc = "run_returned" /\ runRet \notin {"Ok", "none"}) =>
          \A n \in Names : tasks[n].st = "idle"

\* one invocation errored, its sibling returned a failure result
C3_Witness ==
    /\ pc = "run_returned" /\ runRet = "Ok" /\ Len(available) = 2
    /\ tasks[available[1]].exec = "err"
    /\ tasks[available[2]].exec = "ok_false"
    /\ Len(results) = 1

\* C4: when the availability filter leaves no executor, run returns
\* NoExecutorsAvailable in that very step, and the step changes neither the
\* scratch root, nor git's worktree list, nor the registry, nor the manager's
\* list, nor any executor task.
C4_NoExecutorsNoSideEffect ==
    [][(pc = "run_entry" /\ FilterAvailable(Passed) = <<>>) =>
          /\ pc' = "run_returned"
          /\ runRet' = "NoExecutorsAvailable"
          /\ UNCHANGED <<disk, gitAdmin, registry, worktrees, tasks, created, inserted>>]_vars

\* the run returned NoExecutorsAvailable over a scratch root above the cap
C4_Witness ==
    /\ pc = "run_returned" /\ runRet = "NoExecutorsAvailable"
    /\ executors # <<>>
    /\ Cardinality(disk) > MAX_WORKTREES

\* C5: every checkout this process materialised that is on disk is registered.
C5_OnDiskImpliesRegistered ==
    \A p \in created \cap disk : p \in Range(registry)

\* C6: when cleanup returns, the manager's list is empty and the registry holds
\* no path the manager registered; a cleanup called on an empty list changes
\* neither the disk, nor git's list, nor the registry, nor the list.
C6_CleanupEmptiesAndIsIdempotent ==
    [][(pc = "cleanup" /\ pc' \in {"client", "returning"}) =>
          /\ worktrees' = <<>>
          /\ \A p \in inserted : p \notin Range(registry')
          /\ worktrees = <<>> => UNCHANGED <<disk, gitAdmin, registry, worktrees>>]_vars

\* run, cleanup, cleanup: the second cleanup found the list empty
C6_Witness ==
    /\ pc = "client" /\ cleanups = 2 /\ runs = 1
    /\ cleanIdx = 1
    /\ inserted # {}

C8_NothingLeftAtExit ==
    (pc = "exited" /\ exitCode \in {0, 1}) => (created \cap disk = {} /\ registry = <<>>)

\* C9: an interrupt delivered while checkouts are registered drains the
\* registry, removes every registered checkout and exits with 130.
C9_InterruptDrainsAndExits130 ==
    [][(mode = "main" /\ pc \in AwaitPcs /\ pc' = "exited" /\ registry # <<>>) =>
          /\ registry' = <<>>
          /\ \A p \in Range(registry) : p \notin disk'
          /\ exitCode' = 130]_vars

C11_CreateFailureKeepsEarlierCheckouts ==
    (pc = "run_returned" /\ runRet \in {"GitCommand", "Io"}) =>
        /\ attempts = SubSeq(available, 1, createIdx)
        /\ NamesOf(batch) = SubSeq(available, 1, createIdx - 1)
        /\ \A j \in 1..Len(batch) :
             /\ batch[j].path \in Range(registry)
             /\ \E k \in 1..Len(worktrees) : worktrees[k] = batch[j]
        /\ \A n \in Names : tasks[n].st = "idle"

\* the second of two creations failed after the first was registered
C11_Witness ==
    /\ pc = "run_returned" /\ runRet = "Io"
    /\ Len(available) = 2 /\ createIdx = 2
    /\ Len(batch) = 1 /\ batch[1].path \in Range(registry)

\* C12: cleanup_old_worktrees leaves at most MAX_WORKTREES - 1 entries under
\* the scratch root, so that a batch of one checkout ends with at most
\* MAX_WORKTREES entries.
C12_PruneLeavesRoomForOne ==
    [][(pc = "prune" /\ pc' = "create") => Cardinality(disk') <= MAX_WORKTREES - 1]_vars

\* C13: the directory of every checkout this process created is named by a
\* 17-digit timestamp, a dash and the name of a candidate executor; the
\* checkouts the manager holds, and the registry's entries, have pairwise
\* different paths and names, within one batch and across successive batches.
C13_PathsWellFormedAndDistinct ==
    /\ \A p \in created :
         /\ Len(WorktreeName(p)[1]) = 17
         /\ WorktreeName(p)[3] \in Range(executors)
    /\ Injective(PathsOf(worktrees))
    /\ Injective(registry)
    /\ \A i, j \in 1..Len(worktrees) :
         i # j => WorktreeName(worktrees[i].path) # WorktreeName(worktrees[j].path)

\* two successive batches left two checkouts of one executor alive
C13_Witness ==
    /\ runs = 2 /\ Len(worktrees) = 2
    /\ worktrees[1].executor_name = worktrees[2].executor_name
    /\ worktrees[1].path \in disk /\ worktrees[2].path \in disk

\* the text of the entries of ols that carry the tag src
Project(ols, src) ==
    LET sel == SelectSeq(ols, LAMBDA e : e.src = src)
    IN [i \in 1..Len(sel) |-> sel[i].line]

RECURSIVE JoinNl(_)
JoinNl(ls) ==
    IF ls = <<>> THEN <<>>
    ELSE IF Len(ls) = 1 THEN ls[1]
    ELSE ls[1] \o <<NL>> \o JoinNl(Tail(ls))

\* C14: in every ExecutionResult built by the capture loop or by
\* ExecutionResult::success / failure, the Stdout entries of output_lines
\* joined with newlines are stdout, and the Stderr entries are stderr.
C14_OutputLinesJoinToContent ==
    (xpc = "returned" /\ execution.ok /\ execution.by \in {"capture", "constructor"}) =>
        /\ JoinNl(Project(execution.output_lines, "Stdout")) = execution.stdout
        /\ JoinNl(Project(execution.output_lines, "Stderr")) = execution.stderr

\* the place among the lines of its own stream of the i-th entry of seq
Rank(seq, i) == Cardinality({j \in 1..i : seq[j].src = seq[i].src})

\* when the child wrote the line that is the i-th entry of output_lines
ArrivalIndex(i) ==
    CHOOSE k \in 1..Len(arrival) :
        /\ arrival[k].src = output_lines[i].src
        /\ Rank(arrival, k) = Rank(output_lines, i)

\* C15: output_lines is in the order of arrival: of two of its entries, the
\* one whose line the child wrote first comes first.
C15_OutputLinesInArrivalOrder ==
    \A i, j \in 1..Len(output_lines) : i < j => ArrivalIndex(i) < ArrivalIndex(j)

\* C16: execute fails with WorkingDirectoryNotFound when working_dir does
\* not exist; otherwise it returns an ExecutionResult, whose success is false
\* when the exit code is not zero.
C16_ExecuteResult ==
    xpc = "returned" =>
        IF ~cwdExists
        THEN ~execution.ok /\ execution.err = "WorkingDirectoryNotFound"
        ELSE execution.ok /\ (execution.exit_code # 0 => ~execution.success)

\* the files agent a added or modified in its worktree (a symbolic link is
\* no file)
F(a) ==
    {f \in FilePaths :
        scratch[a][f] # Absent /\ scratch[a][f] # Symlink /\ scratch[a][f] # base[f]}

\* C17: after a promotion, the target holds at every file the winner added
\* or modified what the winner's worktree holds there.
C17_PromotedFilesMatchScratch ==
    promotions >= 1 => \A f \in F(winner) : dst[f] = scratch[winner][f]

\* the winner modified src/main.rs and added src/lib.rs, and was promoted
C17_Witness ==
    /\ promotions = 1
    /\ F(winner) = {<<"src", "main.rs">>, <<"src", "lib.rs">>}
    /\ base[<<"src", "main.rs">>] = "v0"
    /\ dstBefore[<<"src", "lib.rs">>] = Absent

\* C18: a promotion leaves every path of the target outside the files the
\* winner added or modified as it was, the user's later changes included.
C18_OtherFilesUntouched ==
    promotions = 1 => \A p \in AllPaths \ F(winner) : dst[p] = dstBefore[p]

\* C19: applying the same result again right after leaves the target as the
\* first application left it.
C19_PromotionIdempotent ==
    [][(promotions >= 1 /\ promotions' = promotions + 1) => dst' = dst]_vars

\* a result that changed the target was applied twice
C19_Witness ==
    /\ promotions = 2
    /\ F(winner) # {}
    /\ dst # dstBefore

\* the worktrees as they would be had the agents other than a written nothing
OthersIdle(a) == [b \in Agents |-> IF b = a THEN scratch[b] ELSE Checkout(base)]

\* C20: after the promotion of agent A's result the target holds A's version
\* of every file A wrote, holds no file that only another agent's worktree
\* has, and is what it would be had the other agents written nothing.
C20_SingleWinner ==
    promotions = 1 =>
        /\ \A f \in F(winner) : dst[f] = scratch[winner][f]
        /\ \A f \in FilePaths :
             (scratch[winner][f] = Absent /\ dstBefore[f] = Absent) => dst[f] = Absent
        /\ dst = apply_result(OthersIdle(winner), winner, dstBefore)

\* both agents wrote src/main.rs, the other one also src/lib.rs; one is promoted
C20_Witness ==
    /\ promotions = 1
    /\ \E b \in Agents \ {winner} :
         /\ scratch[b][<<"src", "lib.rs">>] = b
         /\ scratch[b][<<"src", "main.rs">>] = b
    /\ scratch[winner][<<"src", "main.rs">>] = winner
    /\ scratch[winner][<<"src", "lib.rs">>] = Absent
    /\ dst[<<"src", "main.rs">>] = winner
    /\ dst[<<"src", "lib.rs">>] = Absent

\* ===================================================== remove_worktree calls
\* RemoveSpec: remove_worktree called on its own, on any path, with every
\* outcome of the git command and of remove_dir_all.

RmPaths == {Path(1, "claude"), Path(1, "gemini")}

GitOutcomes == {"spawn_err", "exit_zero", "exit_nonzero"}

RmInit ==
    /\ rmFs \in {[disk |-> d, gitAdmin |-> g] : d \in SUBSET RmPaths, g \in SUBSET RmPaths}
    /\ rmFs.gitAdmin \subseteq rmFs.disk
    /\ rmLog = <<>>

\* one call of remove_worktree(repo_path, path)
RemoveWorktree(path, git, eraseOk) ==
    /\ Len(rmLog) < MaxRemoves
    \* the forced removal succeeds only on a worktree git knows and finds
    /\ git = "exit_zero" => path \in rmFs.gitAdmin /\ path \in rmFs.disk
    /\ LET r == remove_worktree_result(rmFs, path, git, eraseOk)
           after == IF r = "Err" THEN rmFs
                    ELSE remove_worktree(rmFs, path, git # "exit_zero")
       IN /\ rmFs' = after
          /\ rmLog' = Append(rmLog, [path |-> path, git |-> git, ret |-> r,
                                     before |-> rmFs, after |-> after])
    /\ UNCHANGED <<lifeVars, execVars, mergeVars, mockVars, uiVars, sumVars, mirVars>>

RemoveNext == \E path \in RmPaths, git \in GitOutcomes, eraseOk \in BOOLEAN :
                  RemoveWorktree(path, git, eraseOk)

RemoveStart == LifeIdle /\ ExecIdle /\ MergeIdle /\ RmInit /\ SumIdle /\ MirIdle /\ MockIdle /\ UiIdle

RemoveSpec == RemoveStart /\ [][RemoveNext]_vars

\* C24: remove_worktree returns Ok on every call (the forced removal
\* succeeds, it fails and the directory is erased directly, or the checkout is
\* already gone), and a second call on the same path returns Ok and leaves the
\* file system as it was.
C24_RemoveAlwaysSucceeds ==
    \A i \in 1..Len(rmLog) :
        /\ rmLog[i].ret = "Ok"
        /\ (i > 1 /\ rmLog[i - 1].path = rmLog[i].path) => rmLog[i].after = rmLog[i].before

\* C25: the process exits with 0 only when run() returned Ok, with 1 when it
\* returned an error other than UserCancelled, and with a non-zero code when
\* it returned UserCancelled (an interrupt exits through its own handler).
C25_ExitCodes ==
    (mode = "main" /\ pc = "exited" /\ exitCode # 130) =>
        /\ exitCode = 0 => ret = "Ok"
        /\ ret = "Error" => exitCode = 1
        /\ ret = "UserCancelled" => exitCode # 0

\* C26: every launched executor has Running sent before its execute is
\* invoked, then exactly one of Completed / Failed once it has resolved:
\* Completed if and only if execute returned an ExecutionResult whose success
\* is true; nothing is sent for it after that.
C26_ProgressEvents ==
    \A n \in Names :
        LET t == tasks[n]
        IN /\ t.st = "idle" => t.events = <<>>
           /\ t.st \in {"executing", "summary"} => t.events = <<"Running">>
           /\ t.st = "done" =>
                /\ Len(t.events) = 2
                /\ t.events[1] = "Running"
                /\ t.events[2] = (IF t.exec = "ok_true" THEN "Completed" ELSE "Failed")

\* a run of two executors has ended: one reported Completed, the other ran
\* to an ExecutionResult with success = false and reported Failed
C26_Witness ==
    /\ pc = "run_returned"
    /\ \E n, m \in Names :
         /\ tasks[n].events = <<"Running", "Completed">>
         /\ tasks[m].exec = "ok_false"
         /\ tasks[m].events = <<"Running", "Failed">>

\* C27: when the run returns, every executor whose execute returned an
\* ExecutionResult has a TaskResult carrying that result, and its
\* change_summary is absent exactly when the summary probe failed (git status
\* could not be run, or exited non-zero).
C27_SummaryAbsentIffProbeFailed ==
    (pc = "run_returned" /\ runRet = "Ok") =>
        \A n \in Range(available) :
            tasks[n].exec \in {"ok_true", "ok_false"} =>
                \E i \in 1..Len(results) :
                    /\ results[i].executor_name = n
                    /\ results[i].success = (tasks[n].exec = "ok_true")
                    /\ results[i].worktree_path = tasks[n].cwd
                    /\ results[i].change_summary = "None"
                         <=> tasks[n].probe \in {"spawn_err", "exit_nonzero"}

\* digit strings of one length, compared as strings
RECURSIVE DigitsLess(_, _)
DigitsLess(a, b) ==
    /\ a # <<>>
    /\ \/ Head(a) < Head(b)
       \/ Head(a) = Head(b) /\ DigitsLess(Tail(a), Tail(b))

\* the directory names <timestamp>-<executor name> compared as strings
NameLess(p, q) ==
    \/ DigitsLess(Timestamp(p.ts), Timestamp(q.ts))
    \/ Timestamp(p.ts) = Timestamp(q.ts) /\ NameRank(p.name) < NameRank(q.name)

\* the k entries of S with the smallest names
Smallest(S, k) == {p \in S : Cardinality({q \in S : NameLess(q, p)}) < k}

C29_EveryLineOncePerStream ==
    (xpc = "returned" /\ execution.ok /\ execution.by = "capture") =>
        \A src \in Streams :
            Project(execution.output_lines, src) = Project(arrival, src)

\* ================================================== get_change_summary calls
\* SummarySpec: get_change_summary applied to what `git status --porcelain`
\* printed.  A line is a sequence of characters: the two characters of the
\* status code, a space, the path.

StatusCodes ==
    {<<"?", "?">>, <<"A", " ">>, <<" ", "A">>, <<"D", " ">>, <<" ", "D">>, <<" ", "M">>,
     <<"R", " ">>, <<"A", "D">>}

PathTexts == {<<"f">>, <<"g">>, <<"f", " ", "-", ">", " ", "g">>}

\* lines of fewer than three characters
ShortLines == {<<>>, <<"?">>, <<"D", " ">>}

StatusLines == {c \o <<" ">> \o p : c \in StatusCodes, p \in PathTexts} \cup ShortLines

\* mutant: renames and copies are counted as additions
StatusCategoryRenameAdded(code) ==
    IF code \in {<<"?", "?">>, <<"A", " ">>, <<" ", "A">>, <<"R", " ">>} THEN "added"
    ELSE IF code \in {<<"D", " ">>, <<" ", "D">>} THEN "deleted"
    ELSE "modified"

\* match status_code { "??" | "A " | " A" => .., "D " | " D" => .., _ => .. }
StatusCategory(code) ==
    IF code \in {<<"?", "?">>, <<"A", " ">>, <<" ", "A">>} THEN "added"
    ELSE IF code \in {<<"D", " ">>, <<" ", "D">>} THEN "deleted"
    ELSE "modified"

\* the counters and the list after a line of three characters or more
CountLine(sum, line) ==
    LET cat == StatusCategory(SubSeq(line, 1, 2))
    IN [files_added |-> sum.files_added + (IF cat = "added" THEN 1 ELSE 0),
        files_modified |-> sum.files_modified + (IF cat = "modified" THEN 1 ELSE 0),
        files_deleted |-> sum.files_deleted + (IF cat = "deleted" THEN 1 ELSE 0),
        changed_files |-> Append(sum.changed_files, SubSeq(line, 4, Len(line)))]

\* mutant: a short line is counted as a modification
ParseLineCountsShort(sum, line) ==
    IF Len(line) < 3 THEN [sum EXCEPT !.files_modified = @ + 1] ELSE CountLine(sum, line)

\* one turn of the loop over status.lines()
ParseLine(sum, line) == IF Len(line) < 3 THEN sum ELSE CountLine(sum, line)

RECURSIVE ParseLines(_, _)
ParseLines(sum, ls) ==
    IF ls = <<>> THEN sum ELSE ParseLines(ParseLine(sum, Head(ls)), Tail(ls))

\* get_change_summary on the standard output of git status
get_change_summary(stdout) ==
    ParseLines([files_added |-> 0, files_modified |-> 0, files_deleted |-> 0,
                changed_files |-> <<>>], lines(stdout))

SumInit ==
    /\ statusLines \in UNION {[1..k -> StatusLines] : k \in 0..MaxStatusLines}
    /\ summary = NoSummary

\* git::get_change_summary(&repo_path, &worktree.path) returns Ok
GetChangeSummary ==
    /\ summary = NoSummary
    /\ summary' = get_change_summary(Raw(statusLines))
    /\ UNCHANGED <<lifeVars, execVars, mergeVars, mockVars, uiVars, rmVars, mirVars, statusLines>>

SummaryNext == GetChangeSummary

SummaryStart == LifeIdle /\ ExecIdle /\ MergeIdle /\ RmIdle /\ SumInit /\ MirIdle /\ MockIdle /\ UiIdle

SummarySpec == SummaryStart /\ [][SummaryNext]_vars

\* the printed lines of three characters or more
ParsedLines == SelectSeq(statusLines, LAMBDA l : Len(l) >= 3)

\* C22: the three counters of a ChangeSummary add up to the length of
\* changed_files, which has one entry for each line of three characters or
\* more: such a line is counted once, a shorter line not at all.
C22_CountsPartitionLines ==
    summary # NoSummary =>
        /\ summary.files_added + summary.files_modified + summary.files_deleted
             = Len(summary.changed_files)
        /\ Len(summary.changed_files) = Len(ParsedLines)

\* three lines were printed, one of them short, and two were counted
C22_Witness ==
    /\ summary # NoSummary
    /\ Len(statusLines) = 3
    /\ \E i \in 1..3 : Len(statusLines[i]) < 3
    /\ Len(summary.changed_files) = 2

\* the lines of ls whose status code is one of codes
CodeCount(ls, codes) == Len(SelectSeq(ls, LAMBDA l : SubSeq(l, 1, 2) \in codes))

\* C23: files_added counts the lines with code `??`, `A ` or ` A`,
\* files_deleted those with `D ` or ` D`, files_modified all the others
\* (renames among them), and changed_files holds what follows the code of
\* each line, in the order printed.
C23_Classification ==
    summary # NoSummary =>
        /\ summary.files_added
             = CodeCount(ParsedLines, {<<"?", "?">>, <<"A", " ">>, <<" ", "A">>})
        /\ summary.files_deleted = CodeCount(ParsedLines, {<<"D", " ">>, <<" ", "D">>})
        /\ summary.files_modified
             = Len(ParsedLines)
                 - CodeCount(ParsedLines, {<<"?", "?">>, <<"A", " ">>, <<" ", "A">>,
                                           <<"D", " ">>, <<" ", "D">>})
        /\ summary.changed_files
             = [i \in 1..Len(ParsedLines) |-> SubSeq(ParsedLines[i], 4, Len(ParsedLines[i]))]

\* an untracked file, a deletion and a rename, summarised
C23_Witness ==
    /\ statusLines = << <<"?", "?", " ", "f">>, <<"D", " ", " ", "g">>,
                        <<"R", " ", " ", "f", " ", "-", ">", " ", "g">> >>
    /\ summary.files_added = 1
    /\ summary.files_deleted = 1
    /\ summary.files_modified = 1
    /\ summary.changed_files = << <<"f">>, <<"g">>, <<"f", " ", "-", ">", " ", "g">> >>

\* ===================================================== create_worktree calls
\* MirrorSpec: one call of create_worktree on a repository with uncommitted
\* changes.  A path is a sequence of characters; the files a and b may be
\* committed, staged or neither, the directory d/ is untracked.

FileA == <<"a">>

FileB == <<"b">>

DirD == <<"d", "/">>

Arrow == <<" ", "-", ">", " ">>

Present(tree, p) == p \in RepoPaths /\ tree[p] # Absent

\* --- what `git status --porcelain` prints for (head, index, work)

\* the staged column: the index against the commit
StagedCode(head, index, f) ==
    IF head[f] = Absent /\ index[f] # Absent THEN "A"
    ELSE IF head[f] # Absent /\ index[f] = Absent THEN "D"
    ELSE IF head[f] # index[f] THEN "M"
    ELSE " "

\* the unstaged column: the working tree against the index
UnstagedCode(index, work, f) ==
    IF index[f] = Absent THEN " "
    ELSE IF work[f] = Absent THEN "D"
    ELSE IF work[f] # index[f] THEN "M"
    ELSE " "

\* the staged rename from -> to: from left the index, to entered it with
\* from's committed content
StagedRename(head, index, from, to) ==
    /\ from # to
    /\ head[from] # Absent /\ index[from] = Absent
    /\ head[to] = Absent /\ index[to] = head[from]

\* the entry of a tracked path, if it has one
TrackedEntry(head, index, work, f) ==
    LET other == IF f = FileA THEN FileB ELSE FileA
        x == StagedCode(head, index, f)
        y == UnstagedCode(index, work, f)
    IN IF StagedRename(head, index, other, f)
       THEN << <<"R", y, " ">> \o other \o Arrow \o f >>
       ELSE IF StagedRename(head, index, f, other) \/ (x = " " /\ y = " ")
       THEN <<>>
       ELSE << <<x, y, " ">> \o f >>

\* the entry of an untracked file
UntrackedEntry(index, work, f) ==
    IF index[f] = Absent /\ work[f] # Absent THEN << <<"?", "?", " ">> \o f >> ELSE <<>>

\* the entries in git's order: the tracked paths, then the untracked ones, an
\* untracked directory as one entry
GitStatus(head, index, work) ==
    TrackedEntry(head, index, work, FileA) \o TrackedEntry(head, index, work, FileB)
        \o UntrackedEntry(index, work, FileA) \o UntrackedEntry(index, work, FileB)
        \o (IF work[DirD \o <<"x">>] # Absent THEN << <<"?", "?", " ">> \o DirD >> ELSE <<>>)

\* --- copy_uncommitted_changes

\* str::find: the first position of pat in s, 0 if there is none
Find(s, pat) ==
    LET hits == {i \in 1..(Len(s) - Len(pat) + 1) : SubSeq(s, i, i + Len(pat) - 1) = pat}
    IN IF hits = {} THEN 0 ELSE CHOOSE i \in hits : \A j \in hits : i <= j

\* the path a line is about: for a rename, the path after " -> "
ActualPath(status_code, file_path) ==
    IF status_code[1] = "R" /\ Find(file_path, Arrow) # 0
    THEN SubSeq(file_path, Find(file_path, Arrow) + 4, Len(file_path))
    ELSE file_path

\* copy_dir_to_worktree(src/dir, dst/dir): every file below dir is copied
CopyDirToWorktree(src, wt, dir) ==
    [p \in RepoPaths |-> IF IsPrefix(dir, p) /\ src[p] # Absent THEN src[p] ELSE wt[p]]

\* src_path.is_dir()
IsDirIn(tree, dir) == \E p \in RepoPaths : IsPrefix(dir, p) /\ tree[p] # Absent

\* the line makes the loop copy something (a step that can fail)
CopiesOf(src, line) ==
    /\ Len(line) >= 3
    /\ SubSeq(line, 1, 2) \notin {<<"D", " ">>, <<" ", "D">>, <<"D", "D">>}
    /\ LET path == ActualPath(SubSeq(line, 1, 2), SubSeq(line, 4, Len(line)))
       IN Present(src, path) \/ IsDirIn(src, path)

\* one turn of the loop over status.lines(): the worktree's tree afterwards
MirrorLine(src, wt, line) ==
    IF Len(line) < 3 THEN wt
    ELSE LET status_code == SubSeq(line, 1, 2)
             file_path == SubSeq(line, 4, Len(line))
             path == ActualPath(status_code, file_path)
         IN IF status_code \in {<<"D", " ">>, <<" ", "D">>, <<"D", "D">>}
            THEN IF Present(wt, file_path) THEN [wt EXCEPT ![file_path] = Absent] ELSE wt
            ELSE IF Present(src, path) THEN [wt EXCEPT ![path] = src[path]]
            ELSE IF IsDirIn(src, path) THEN CopyDirToWorktree(src, wt, path)
            ELSE wt

RECURSIVE MirrorLines(_, _, _)
MirrorLines(src, wt, ls) ==
    IF ls = <<>> THEN wt ELSE MirrorLines(src, MirrorLine(src, wt, Head(ls)), Tail(ls))

\* copy_uncommitted_changes(source, worktree) run to its end
copy_uncommitted_changes(src, wt, stdout) == MirrorLines(src, wt, lines(stdout))

\* --- the specification

MirInit ==
    /\ userHead \in [RepoPaths -> {Absent, "v0"}]
    /\ userIndex \in [RepoPaths -> {Absent, "v0", "v1"}]
    /\ userTree \in [RepoPaths -> {Absent, "v0", "v1"}]
    /\ userHead[DirD \o <<"x">>] = Absent /\ userIndex[DirD \o <<"x">>] = Absent
    /\ worktreeTree = NoTree
    /\ printed = <<>>
    /\ createRet = "none"

\* create_worktree(repo_path, executor_name): git worktree add --detach, then
\* copy_uncommitted_changes; a copy may fail and end the call with its error
CreateWorktree ==
    /\ createRet = "none"
    /\ LET out == GitStatus(userHead, userIndex, userTree)
       IN \E addOk \in BOOLEAN, n \in 0..Len(out) :
            IF ~addOk
            THEN /\ n = 0
                 /\ createRet' = "GitCommand"
                 /\ UNCHANGED <<worktreeTree, printed>>
            ELSE /\ n < Len(out) => CopiesOf(userTree, out[n + 1])
                 /\ printed' = out
                 /\ worktreeTree' = copy_uncommitted_changes(userTree, userHead,
                                                             Raw(SubSeq(out, 1, n)))
                 /\ createRet' = IF n = Len(out) THEN "Ok" ELSE "Io"
    /\ UNCHANGED <<lifeVars, execVars, mergeVars, mockVars, uiVars, rmVars, sumVars, userHead, userIndex,
                   userTree>>

MirrorNext == CreateWorktree

MirrorStart == LifeIdle /\ ExecIdle /\ MergeIdle /\ RmIdle /\ SumIdle /\ MirInit /\ MockIdle /\ UiIdle

MirrorSpec == MirrorStart /\ [][MirrorNext]_vars

\* C21: when create_worktree has returned Ok, the worktree's working tree is
\* the user's working tree: the commit's files with every staged, unstaged and
\* untracked change and every deletion applied, whatever entries the status
\* lists.
C21_WorktreeEqualsUserTree ==
    createRet = "Ok" => worktreeTree = userTree

\* the status codes of the printed entries that name path p as their path
\* (for a rename, the path after the arrow)
CodesOf(p) ==
    {SubSeq(printed[i], 1, 2) : i \in {j \in 1..Len(printed) :
        ActualPath(SubSeq(printed[j], 1, 2), SubSeq(printed[j], 4, Len(printed[j]))) = p}}

\* C30: when create_worktree has returned Ok, every path the status lists as
\* deleted (a D in its code, the file gone from the user's working tree) is
\* absent from the worktree, and for every rename entry "A -> B" the worktree
\* holds at B what the user's working tree holds at B.
C30_DeletionsAndRenamesMirrored ==
    createRet = "Ok" =>
        \A p \in RepoPaths :
            /\ ((\E c \in CodesOf(p) : c[1] = "D" \/ c[2] = "D") /\ userTree[p] = Absent)
                  => worktreeTree[p] = Absent
            /\ (\E c \in CodesOf(p) : c[1] = "R") => worktreeTree[p] = userTree[p]

\* C35: whenever the tasks of a run are launched, a later run on the same
\* runner included, each executor's working directory is the checkout that
\* this run's create_worktrees recorded for it, not one recorded by an
\* earlier run.
C35_RunsInOwnCheckout ==
    pc = "join" =>
        \A n \in Range(available) :
            \E i \in 1..Len(batch) :
                /\ batch[i].executor_name = n
                /\ batch[i].path = tasks[n].cwd

C31_GitAndSymlinksSkipped ==
    promotions >= 1 =>
        \A p \in AllPaths :
            /\ ".git" \in Range(p) => dst[p] = dstBefore[p]
            /\ scratch[winner][p] = Symlink => dst[p] = dstBefore[p]

\* the promoted worktree holds a repository under src/ and a symbolic link
\* where the target had nothing; the promotion changed the target
C31_Witness ==
    /\ promotions = 1
    /\ scratch[winner][NestedGit] = winner
    /\ \E f \in FilePaths : scratch[winner][f] = Symlink /\ dstBefore[f] = Absent
    /\ dst # dstBefore

\* C36: every file the target held before the promotion is still there
\* afterwards; a file the winner deleted in its worktree stays in the target.
C36_PromotionRemovesNothing ==
    promotions >= 1 => \A p \in AllPaths : dstBefore[p] # Absent => dst[p] # Absent

\* the winner deleted README.md in its worktree and wrote another file; after
\* the promotion the target still has README.md
C36_Witness ==
    /\ promotions = 1
    /\ scratch[winner][<<"README.md">>] = Absent
    /\ dstBefore[<<"README.md">>] # Absent
    /\ dst[<<"README.md">>] = dstBefore[<<"README.md">>]
    /\ dst # dstBefore

\* ======================================================= MockExecutor calls
\* MockSpec: a MockExecutor is built (with_success, with_failure,
\* with_file_action) and then execute is called on it several times.

Prompts == {"p1", "p2"}

\* entries below a working directory
MockEntries == {"f", "d"}

\* what with_success / with_failure add
ResponseChoices ==
    {[kind |-> "success", text |-> <<"a">>], [kind |-> "failure", text |-> <<"a">>]}

\* with_file, with_delete, with_dir
FileActions ==
    {[op |-> "Write", path |-> "f"], [op |-> "Delete", path |-> "f"],
     [op |-> "CreateDir", path |-> "d"], [op |-> "Delete", path |-> "d"]}

\* one arm of the match of perform_file_actions, on the entries of the
\* working directory
PerformFileAction(entries, act) ==
    IF act.op = "Delete" THEN entries \ {act.path} ELSE entries \cup {act.path}

RECURSIVE perform_file_actions(_, _)
perform_file_actions(entries, acts) ==
    IF acts = <<>> THEN entries
    ELSE perform_file_actions(PerformFileAction(entries, Head(acts)), Tail(acts))

\* responses.pop(): the last element of the Vec, or None
NextResponse(rs) == IF rs = <<>> THEN NoResponse ELSE rs[Len(rs)]

\* the Vec after pop()
Popped(rs) == IF rs = <<>> THEN rs ELSE SubSeq(rs, 1, Len(rs) - 1)

MockInit ==
    /\ responses = <<>>
    /\ file_actions = <<>>
    /\ calls = <<>>
    /\ mockDirs \in [WorkingDirs -> {{}, {"f"}}]
    /\ configured = <<>>
    /\ returned = <<>>

\* with_response (through with_success or with_failure), before any call
WithResponse(r) ==
    /\ calls = <<>> /\ Len(responses) < MaxResponses
    /\ responses' = Append(responses, r)
    /\ configured' = Append(configured, r)
    /\ UNCHANGED <<lifeVars, execVars, mergeVars, gitVars, uiVars, file_actions, calls, mockDirs,
                   returned>>

\* with_file_action, before any call
WithFileAction(act) ==
    /\ calls = <<>> /\ Len(file_actions) < MaxFileActions
    /\ file_actions' = Append(file_actions, act)
    /\ UNCHANGED <<lifeVars, execVars, mergeVars, gitVars, uiVars, responses, calls, mockDirs,
                   configured, returned>>

\* MockExecutor::execute(prompt, working_dir): the call is recorded, the file
\* actions are performed (done: how many before one fails), a response is
\* popped and returned
MockExecuteCall(prompt, wd, done) ==
    /\ Len(calls) < MaxMockCalls
    /\ calls' = Append(calls, [prompt |-> prompt, working_dir |-> wd])
    /\ mockDirs' = [mockDirs EXCEPT
                      ![wd] = perform_file_actions(@, SubSeq(file_actions, 1, done))]
    /\ IF done = Len(file_actions)
       THEN /\ responses' = Popped(responses)
            /\ returned' = Append(returned,
                                  [prompt |-> prompt, working_dir |-> wd,
                                   entries |-> mockDirs'[wd],
                                   result |-> MockResponse(NextResponse(responses))])
       ELSE /\ responses' = responses
            /\ returned' = Append(returned,
                                  [prompt |-> prompt, working_dir |-> wd,
                                   entries |-> mockDirs'[wd],
                                   result |-> ErrResult("Io")])
    /\ UNCHANGED <<lifeVars, execVars, mergeVars, gitVars, uiVars, file_actions, configured>>

MockNext ==
    \/ \E r \in ResponseChoices : WithResponse(r)
    \/ \E act \in FileActions : WithFileAction(act)
    \/ \E prompt \in Prompts, wd \in WorkingDirs, done \in 0..Len(file_actions) :
         MockExecuteCall(prompt, wd, done)

MockStart == LifeIdle /\ ExecIdle /\ MergeIdle /\ GitIdle /\ MockInit /\ UiIdle

MockSpec == MockStart /\ [][MockNext]_vars

\* how many of the first i calls returned an ExecutionResult
OkCalls(i) == Cardinality({j \in 1..i : returned[j].result.ok})

\* the last file action on entry e, 0 if there is none
LastActionOn(e) ==
    LET hits == {i \in 1..Len(file_actions) : file_actions[i].path = e}
    IN IF hits = {} THEN 0 ELSE CHOOSE i \in hits : \A j \in hits : j <= i

\* C32: the call log holds one (prompt, working_dir) record per execute call,
\* in call order; the k-th call that returns an ExecutionResult returns the
\* k-th response added, or the default success with empty stdout once the
\* responses are used up; and when a call returns an ExecutionResult the
\* working directory holds what the file actions make of it.
C32_MockIsQueue ==
    /\ Len(calls) = Len(returned)
    /\ \A i \in 1..Len(returned) :
         /\ calls[i].prompt = returned[i].prompt
         /\ calls[i].working_dir = returned[i].working_dir
         /\ returned[i].result.ok =>
              /\ returned[i].result
                   = (IF OkCalls(i) <= Len(configured)
                      THEN MockResponse(configured[OkCalls(i)])
                      ELSE ExecutionResult_success(<<>>))
              /\ \A e \in MockEntries :
                   LastActionOn(e) # 0 =>
                       (e \in returned[i].entries
                          <=> file_actions[LastActionOn(e)].op # "Delete")

\* ------------------------------------------------- the selection UI
\* cli/split_view.rs: the App, handle_event and the loop of
\* select_result_split_view.  A text is a sequence of lines, a line a
\* sequence of characters; ESC and BEL stand for \x1b and \x07.
MaxModels == 3

MaxQuery == 2

MaxScroll == 2

\* one line more than a u16 counts
HugeLen == 65537

U16 == 65536

Lowered ==
    ("A" :> "a") @@ ("B" :> "b") @@ ("C" :> "c") @@ ("D" :> "d") @@ ("E" :> "e") @@
    ("F" :> "f") @@ ("G" :> "g") @@ ("H" :> "h") @@ ("I" :> "i") @@ ("J" :> "j") @@
    ("K" :> "k") @@ ("L" :> "l") @@ ("M" :> "m") @@ ("N" :> "n") @@ ("O" :> "o") @@
    ("P" :> "p") @@ ("Q" :> "q") @@ ("R" :> "r") @@ ("S" :> "s") @@ ("T" :> "t") @@
    ("U" :> "u") @@ ("V" :> "v") @@ ("W" :> "w") @@ ("X" :> "x") @@ ("Y" :> "y") @@
    ("Z" :> "z")

Raised == [c \in {Lowered[u] : u \in DOMAIN Lowered} |->
              CHOOSE u \in DOMAIN Lowered : Lowered[u] = c]

is_ascii_alphabetic(c) == c \in DOMAIN Lowered \/ c \in DOMAIN Raised

to_lowercase(s) ==
    [i \in 1..Len(s) |-> IF s[i] \in DOMAIN Lowered THEN Lowered[s[i]] ELSE s[i]] \o <<>>

to_uppercase(s) ==
    [i \in 1..Len(s) |-> IF s[i] \in DOMAIN Raised THEN Raised[s[i]] ELSE s[i]] \o <<>>

\* str::contains
contains(s, q) == \E k \in 0..(Len(s) - Len(q)) : SubSeq(s, k + 1, k + Len(q)) = q

repeat(c, n) == [i \in 1..n |-> c] \o <<>>

\* the CSI branch: everything up to and including the first letter
RECURSIVE SkipCsi(_)
SkipCsi(s) ==
    IF s = <<>> THEN <<>>
    ELSE IF is_ascii_alphabetic(Head(s)) THEN Tail(s)
    ELSE SkipCsi(Tail(s))

\* the OSC branch: up to BEL, or up to ESC and the backslash after it
RECURSIVE SkipOsc(_)
SkipOsc(s) ==
    IF s = <<>> THEN <<>>
    ELSE IF Head(s) = "BEL" THEN Tail(s)
    ELSE IF Head(s) = "ESC"
         THEN IF Len(s) >= 2 /\ s[2] = "\\" THEN Tail(Tail(s)) ELSE Tail(s)
    ELSE SkipOsc(Tail(s))

RECURSIVE strip_ansi_codes(_)
strip_ansi_codes(s) ==
    IF s = <<>> THEN <<>>
    ELSE IF Head(s) = "ESC"
         THEN IF Len(s) >= 2 /\ s[2] = "["
              THEN strip_ansi_codes(SkipCsi(Tail(Tail(s))))
              ELSE IF Len(s) >= 2 /\ s[2] = "]"
                   THEN strip_ansi_codes(SkipOsc(Tail(Tail(s))))
                   ELSE strip_ansi_codes(Tail(s))
    ELSE <<Head(s)>> \o strip_ansi_codes(Tail(s))

get_agent_emoji(name) ==
    LET n == to_lowercase(name)
    IN  IF n = <<"c", "l", "a", "u", "d", "e">> THEN "robot"
        ELSE IF n = <<"g", "e", "m", "i", "n", "i">> THEN "sparkles"
        ELSE IF n = <<"c", "o", "d", "e", "x">> THEN "package"
        ELSE "computer"

STDERR_MARKER == <<"SOH", "S", "T", "D", "E", "R", "R", "STX">>

DigitChars == <<"0", "1", "2", "3", "4", "5", "6", "7", "8", "9">>

\* {} of a usize below ten
Display(n) == <<DigitChars[n + 1]>>

NoChangeSummary == [some |-> FALSE, files_added |-> 0, files_modified |-> 0, files_deleted |-> 0]

\* what git diff HEAD prints in the second worktree: HugeLen lines, the
\* last two holding the text "+aN"
HugeDiff ==
    [i \in 1..HugeLen |-> IF i >= HugeLen - 1 THEN <<"+", "a", "N">> ELSE <<"x">>] \o <<>>

\* results a run can hand to the selection: executor, outcome, captured
\* lines, and what git prints in the worktree
SampleInfos ==
    << [executor_name |-> <<"g", "e", "m", "i", "n", "i">>, success |-> TRUE, files_changed |-> 1,
        change_summary |-> [some |-> TRUE, files_added |-> 1, files_modified |-> 0,
                            files_deleted |-> 0],
        output_lines |-> << [stream |-> "Stdout", line |-> <<"ESC", "[", "1", "m", "N", "a">>],
                            [stream |-> "Stderr", line |-> <<"j">>] >>,
        diff |-> [ok |-> TRUE, stdout |-> << <<"+", "n">>, <<"-", "j">>, <<" ", "A", "n">> >>],
        status |-> [ok |-> TRUE, stdout |-> <<>>]],
       [executor_name |-> <<"c", "o", "d", "e", "x">>, success |-> FALSE, files_changed |-> 0,
        change_summary |-> NoChangeSummary,
        output_lines |-> <<>>,
        diff |-> [ok |-> TRUE, stdout |-> HugeDiff],
        status |-> [ok |-> TRUE, stdout |-> <<>>]],
       [executor_name |-> <<"a">>, success |-> TRUE, files_changed |-> 0,
        change_summary |-> NoChangeSummary,
        output_lines |-> << [stream |-> "Stdout", line |-> <<"j", "a">>] >>,
        diff |-> [ok |-> TRUE, stdout |-> <<>>],
        status |-> [ok |-> TRUE, stdout |-> <<>>]] >>

\* the results handed to the selection
ResultInfos == [i \in 1..MaxModels |-> SampleInfos[((i - 1) % Len(SampleInfos)) + 1]] \o <<>>

OutputText(output_line) ==
    IF output_line.stream = "Stdout"
    THEN strip_ansi_codes(output_line.line)
    ELSE STDERR_MARKER \o strip_ansi_codes(output_line.line)

get_log_content_string(info) ==
    LET summary_lines ==
            (IF info.change_summary.some /\ info.change_summary.files_added > 0
             THEN << <<" ", " ", "+", " ">> \o Display(info.change_summary.files_added)
                       \o <<" ", "a", "d", "d", "e", "d">> >>
             ELSE <<>>)
            \o (IF info.change_summary.some /\ info.change_summary.files_modified > 0
                THEN << <<" ", " ", "~", " ">> \o Display(info.change_summary.files_modified)
                          \o <<" ", "m", "o", "d", "i", "f", "i", "e", "d">> >>
                ELSE <<>>)
            \o (IF info.change_summary.some /\ info.change_summary.files_deleted > 0
                THEN << <<" ", " ", "-", " ">> \o Display(info.change_summary.files_deleted)
                          \o <<" ", "d", "e", "l", "e", "t", "e", "d">> >>
                ELSE <<>>)
    IN  << <<get_agent_emoji(info.executor_name), " ">> \o to_uppercase(info.executor_name)
              \o <<" ", "-", " ">>
              \o (IF info.success THEN <<"S", "u", "c", "c", "e", "s", "s">>
                  ELSE <<"F", "a", "i", "l", "e", "d">>),
           repeat("=", 50),
           <<>>,
           <<"S", "u", "m", "m", "a", "r", "y", ":">>,
           <<" ", " ", "F", "i", "l", "e", "s", " ", "c", "h", "a", "n", "g", "e", "d", ":", " ">>
              \o Display(info.files_changed) >>
        \o summary_lines
        \o << <<>>,
              repeat("-", 50),
              <<"O", "u", "t", "p", "u", "t", ":">>,
              repeat("-", 50) >>
        \o (IF info.output_lines = <<>>
            THEN << <<"(", "n", "o", " ", "o", "u", "t", "p", "u", "t", ")">> >>
            ELSE [i \in 1..Len(info.output_lines) |-> OutputText(info.output_lines[i])] \o <<>>)

\* git status printed nothing, or could not be started; a listing of new
\* files is not among the worktrees of ResultInfos
get_untracked_files_string(info) ==
    IF info.status.ok
    THEN << <<"N", "o", " ", "c", "h", "a", "n", "g", "e", "s", " ", "d", "e", "t", "e", "c",
              "t", "e", "d", ".">> >>
    ELSE << <<"E", "r", "r", "o", "r", " ", "g", "e", "t", "t", "i", "n", "g", " ", "s", "t",
              "a", "t", "u", "s">> >>

get_diff_content_string(info) ==
    IF info.diff.ok
    THEN IF info.diff.stdout = <<>> THEN get_untracked_files_string(info) ELSE info.diff.stdout
    ELSE << <<"E", "r", "r", "o", "r", " ", "g", "e", "t", "t", "i", "n", "g", " ", "d", "i",
              "f", "f">> >>

ViewModes == {"Log", "Diff"}

\* the texts cached_content can hold: the empty String, or what was
\* computed for the model at `index` (1-based) in `mode`
ContentKeys == {EmptyContent} \cup [index : 1..MaxModels, mode : ViewModes]

Lines ==
    [k \in ContentKeys |->
        IF k.mode = "none" THEN <<>>
        ELSE IF k.mode = "Log" THEN get_log_content_string(ResultInfos[k.index])
        ELSE get_diff_content_string(ResultInfos[k.index])] @@ <<>>

\* what the search bar can hold: the characters typed, at most MaxQuery
TypedChars == {"a", "N", "j"}

Queries == UNION {[1..k -> TypedChars] : k \in 0..MaxQuery}

\* the n-th smallest member of a set of numbers
Nth(S, n) == CHOOSE x \in S : Cardinality({y \in S : y < x}) = n - 1

\* line.to_lowercase() of every line
LoweredLines ==
    [k \in ContentKeys |->
        LET text == Lines[k]
        IN  [i \in 1..Len(text) |-> to_lowercase(text[i])] \o <<>>] @@ <<>>

\* execute_search's loop before the cast: the numbers of the lines whose
\* lower-cased text holds the lower-cased query, first line first (it is
\* not run on an empty query)
HoldingLines ==
    [k \in ContentKeys |->
        [q \in Queries \ {<<>>} |->
            LET query_lower == to_lowercase(q)
                lowered == LoweredLines[k]
                hits == {n \in 0..(Len(lowered) - 1) : contains(lowered[n + 1], query_lower)}
            IN  [j \in 1..Cardinality(hits) |-> Nth(hits, j)] \o <<>>] @@ <<>>] @@ <<>>

\* search_matches.push(line_num as u16)
FoundLines ==
    [k \in ContentKeys |->
        [q \in Queries \ {<<>>} |->
            [j \in 1..Len(HoldingLines[k][q]) |-> HoldingLines[k][q][j] % U16] \o <<>>] @@ <<>>] @@ <<>>

Some(i) == [some |-> TRUE, i |-> i]

saturating_add(x, n) == IF x + n > U16 - 1 THEN U16 - 1 ELSE x + n

saturating_sub(x, n) == IF x - n < 0 THEN 0 ELSE x - n

\* App::new on the first n results
App_new(n) ==
    [NoApp EXCEPT !.result_infos = [i \in 1..n |-> i],
                  !.list_state = IF n > 0 THEN Some(0) ELSE None]

selected_index(a) == IF a.list_state.some THEN a.list_state.i ELSE 0

\* Vec::get(selected_index).is_some()
selected_info(a) == selected_index(a) < Len(a.result_infos)

clear_search(a) ==
    [a EXCEPT !.search_query = <<>>, !.search_matches = <<>>, !.search_match_index = 0]

next_model_unclamped(a) ==
    clear_search([a EXCEPT !.list_state = Some(selected_index(a) + 1), !.scroll_offset = 0])

next_model(a) ==
    IF a.result_infos = <<>> THEN a
    ELSE LET i == IF a.list_state.some
                  THEN IF a.list_state.i + 1 < Len(a.result_infos)
                       THEN a.list_state.i + 1
                       ELSE a.list_state.i
                  ELSE 0
         IN  clear_search([a EXCEPT !.list_state = Some(i), !.scroll_offset = 0])

previous_model(a) ==
    LET i == IF a.list_state.some
             THEN IF a.list_state.i > 0 THEN a.list_state.i - 1 ELSE 0
             ELSE 0
    IN  clear_search([a EXCEPT !.list_state = Some(i), !.scroll_offset = 0])

scroll_down(a, count) == [a EXCEPT !.scroll_offset = saturating_add(a.scroll_offset, count)]

scroll_up(a, count) == [a EXCEPT !.scroll_offset = saturating_sub(a.scroll_offset, count)]

scroll_to_top(a) == [a EXCEPT !.scroll_offset = 0]

scroll_to_bottom(a) ==
    IF a.content_height > 0
    THEN [a EXCEPT !.scroll_offset = saturating_sub(a.content_height, 1)]
    ELSE a

half_page_down(a, height) == scroll_down(a, height \div 2)

half_page_up(a, height) == scroll_up(a, height \div 2)

set_mode(a, m) ==
    IF a.current_mode # m
    THEN clear_search([a EXCEPT !.current_mode = m, !.scroll_offset = 0])
    ELSE a

toggle_focus(a) ==
    [a EXCEPT !.focused_panel = IF a.focused_panel = "Models" THEN "Details" ELSE "Models"]

start_search(a) ==
    [a EXCEPT !.input_mode = "Search", !.search_query = <<>>, !.search_matches = <<>>,
              !.search_match_index = 0]

cancel_search(a) == [a EXCEPT !.input_mode = "Normal"]

execute_search(a, content) ==
    LET a1 == [a EXCEPT !.input_mode = "Normal"]
    IN  IF a.search_query = <<>> THEN a1
        ELSE LET found == FoundLines[content][a.search_query]
             IN  IF found # <<>>
                 THEN [a1 EXCEPT !.search_matches = found, !.search_match_index = 0,
                                 !.scroll_offset = found[1]]
                 ELSE [a1 EXCEPT !.search_matches = found]

next_search_match_no_wrap(a) ==
    IF a.search_matches = <<>> THEN a
    ELSE LET i == IF a.search_match_index + 1 < Len(a.search_matches)
                  THEN a.search_match_index + 1
                  ELSE a.search_match_index
         IN  [a EXCEPT !.search_match_index = i, !.scroll_offset = a.search_matches[i + 1]]

next_search_match(a) ==
    IF a.search_matches = <<>> THEN a
    ELSE LET i == (a.search_match_index + 1) % Len(a.search_matches)
         IN  [a EXCEPT !.search_match_index = i, !.scroll_offset = a.search_matches[i + 1]]

previous_search_match(a) ==
    IF a.search_matches = <<>> THEN a
    ELSE LET i == IF a.search_match_index = 0
                  THEN Len(a.search_matches) - 1
                  ELSE a.search_match_index - 1
         IN  [a EXCEPT !.search_match_index = i, !.scroll_offset = a.search_matches[i + 1]]

apply(a) == [a EXCEPT !.result = [kind |-> "Apply", index |-> selected_index(a)]]

start_confirm(a) == [a EXCEPT !.input_mode = "Confirm"]

cancel_confirm_applies(a) == apply([a EXCEPT !.input_mode = "Normal"])

cancel_confirm(a) == [a EXCEPT !.input_mode = "Normal"]

start_confirm_cancel(a) == [a EXCEPT !.input_mode = "ConfirmCancel"]

cancel(a) == [a EXCEPT !.result = [kind |-> "Cancel", index |-> 0]]

\* KeyCode::Char(c) for the characters, the other KeyCodes by name
KeyChars == {"j", "k", "l", "L", "D", "d", "a", "q", "y", "Y", "n", "N", "u", "f", "b",
             "g", "G", "h", "/"}

NamedKeys == {"Down", "Up", "Tab", "Right", "Left", "Enter", "Esc", "Backspace", "Home",
              "End", "PageDown", "PageUp"}

Key(code, ctrl) == [type |-> "Key", code |-> code, ctrl |-> ctrl, kind |-> "Press"]

\* the events read: every key pressed, Ctrl with the four paging letters,
\* a key released, and an event that is not a key
Events ==
    {Key(c, FALSE) : c \in KeyChars \cup NamedKeys}
        \cup {Key(c, TRUE) : c \in {"d", "u", "f", "b"}}
        \cup {[type |-> "Key", code |-> "y", ctrl |-> FALSE, kind |-> "Release"],
              [type |-> "Resize", code |-> "none", ctrl |-> FALSE, kind |-> "none"]}

Stay(a) == [app |-> a, ret |-> FALSE]

handle_event(a, event, height, content) ==
    IF event.type # "Key" THEN Stay(a)
    ELSE IF event.kind # "Press" THEN Stay(a)
    ELSE IF a.input_mode = "Confirm"
    THEN IF event.code \in {"y", "Y"} THEN [app |-> apply(a), ret |-> TRUE]
         ELSE IF event.code \in {"n", "N", "Esc"} THEN Stay(cancel_confirm(a))
         ELSE Stay(a)
    ELSE IF a.input_mode = "ConfirmCancel"
    THEN IF event.code \in {"y", "Y"} THEN [app |-> cancel(a), ret |-> TRUE]
         ELSE IF event.code \in {"n", "N", "Esc"} THEN Stay(cancel_confirm(a))
         ELSE Stay(a)
    ELSE IF a.input_mode = "Search"
    THEN IF event.code = "Enter" THEN Stay(execute_search(a, content))
         ELSE IF event.code = "Esc" THEN Stay(cancel_search(a))
         ELSE IF event.code = "Backspace"
              THEN Stay([a EXCEPT !.search_query =
                            IF @ = <<>> THEN @ ELSE SubSeq(@, 1, Len(@) - 1)])
         ELSE IF event.code \in KeyChars
              THEN Stay([a EXCEPT !.search_query = Append(@, event.code)])
         ELSE Stay(a)
    ELSE IF a.focused_panel = "Models"
    THEN Stay(IF event.code \in {"j", "Down"} THEN next_model(a)
              ELSE IF event.code \in {"k", "Up"} THEN previous_model(a)
              ELSE IF event.code \in {"Tab", "l", "Right"} THEN toggle_focus(a)
              ELSE IF event.code = "L" THEN set_mode(a, "Log")
              ELSE IF event.code = "D" THEN set_mode(a, "Diff")
              ELSE IF event.code \in {"a", "Enter"} THEN start_confirm(a)
              ELSE IF event.code \in {"q", "Esc"} THEN start_confirm_cancel(a)
              ELSE a)
    ELSE Stay(IF event.code \in {"j", "Down"} THEN scroll_down(a, 1)
              ELSE IF event.code \in {"k", "Up"} THEN scroll_up(a, 1)
              ELSE IF event.code = "d" /\ event.ctrl THEN half_page_down(a, height)
              ELSE IF event.code = "u" /\ event.ctrl THEN half_page_up(a, height)
              ELSE IF event.code = "f" /\ event.ctrl THEN scroll_down(a, height)
              ELSE IF event.code = "b" /\ event.ctrl THEN scroll_up(a, height)
              ELSE IF event.code = "g" THEN scroll_to_top(a)
              ELSE IF event.code = "G" THEN scroll_to_bottom(a)
              ELSE IF event.code = "Home" THEN scroll_to_top(a)
              ELSE IF event.code = "End" THEN scroll_to_bottom(a)
              ELSE IF event.code = "PageDown" THEN scroll_down(a, height)
              ELSE IF event.code = "PageUp" THEN scroll_up(a, height)
              ELSE IF event.code = "/" THEN start_search(a)
              ELSE IF event.code = "n" THEN next_search_match(a)
              ELSE IF event.code = "N" THEN previous_search_match(a)
              ELSE IF event.code \in {"Tab", "h", "Left"} THEN toggle_focus(a)
              ELSE IF event.code \in {"l", "L"} THEN set_mode(a, "Log")
              ELSE IF event.code = "d" /\ ~event.ctrl THEN set_mode(a, "Diff")
              ELSE IF event.code = "D" THEN set_mode(a, "Diff")
              ELSE IF event.code = "a" THEN start_confirm(a)
              ELSE IF event.code \in {"q", "Esc"} THEN start_confirm_cancel(a)
              ELSE a)

\* terminal.size() less the four rows of chrome, or 20 when it fails
ViewportHeights == {2, 20}

\* the scroll offsets followed: the first MaxScroll lines, the last two a
\* u16 holds, and wherever a search or a jump to the bottom lands
ScrollFollowed(before, after) ==
    \/ after.scroll_offset <= MaxScroll
    \/ after.scroll_offset >= U16 - 2
    \/ after.scroll_offset = before.scroll_offset
    \/ after.scroll_offset + 1 = after.content_height
    \/ \E i \in 1..Len(after.search_matches) : after.search_matches[i] = after.scroll_offset

\* select_result_split_view up to the loop
SelectResultSplitView(n) ==
    /\ uiPc = "idle"
    /\ IF n = 0
       THEN /\ uiPc' = "done"
            /\ uiRet' = [kind |-> "NoExecutorsAvailable", index |-> 0]
            /\ UNCHANGED <<app, cached_content, last_selected, last_mode>>
       ELSE /\ app' = App_new(n)
            /\ cached_content' = EmptyContent
            /\ last_selected' = 0
            /\ last_mode' = "Log"
            /\ uiPc' = "draw"
            /\ UNCHANGED uiRet
    /\ UNCHANGED <<lifeVars, execVars, mergeVars, gitVars, mockVars, viewport_height, frame,
                   confirmStart>>

\* one pass of the loop down to terminal.draw: refresh the cache when the
\* selection or the mode moved, measure the terminal, render
Draw(height) ==
    /\ uiPc = "draw"
    /\ LET moved == selected_index(app) # last_selected \/ app.current_mode # last_mode
           fresh == [index |-> selected_index(app) + 1, mode |-> app.current_mode]
           shown == IF moved /\ selected_info(app) THEN fresh ELSE cached_content
           tall  == IF moved /\ selected_info(app)
                    THEN Len(Lines[fresh]) % U16
                    ELSE app.content_height
       IN  /\ cached_content' = shown
           /\ app' = [app EXCEPT !.content_height = tall]
           /\ frame' = [drawn |-> TRUE, content |-> shown, content_height |-> tall,
                        selected |-> selected_index(app), mode |-> app.current_mode]
    /\ last_selected' = selected_index(app)
    /\ last_mode' = app.current_mode
    /\ viewport_height' = height
    /\ uiPc' = "poll"
    /\ UNCHANGED <<lifeVars, execVars, mergeVars, gitVars, mockVars, uiRet, confirmStart>>

\* event::poll found nothing within 100 ms
PollTimeout ==
    /\ uiPc = "poll"
    /\ uiPc' = "draw"
    /\ UNCHANGED <<lifeVars, execVars, mergeVars, gitVars, mockVars, app, cached_content,
                   last_selected, last_mode, viewport_height, uiRet, frame, confirmStart>>

\* event::read, handle_event, and the return after the loop
HandleEvent(event) ==
    /\ uiPc = "poll"
    /\ app.input_mode = "Search" /\ event.code \in KeyChars
           => event.code \in TypedChars /\ Len(app.search_query) < MaxQuery
    /\ LET r == handle_event(app, event, viewport_height, cached_content)
       IN  /\ ScrollFollowed(app, r.app)
           /\ app' = r.app
           /\ confirmStart' = IF app.input_mode # "Confirm" /\ r.app.input_mode = "Confirm"
                              THEN selected_index(app)
                              ELSE confirmStart
           /\ IF r.ret
              THEN /\ uiPc' = "done"
                   /\ uiRet' = IF r.app.result.kind = "Apply"
                               THEN [kind |-> "Ok", index |-> r.app.result.index]
                               ELSE [kind |-> "UserCancelled", index |-> 0]
              ELSE /\ uiPc' = "draw"
                   /\ UNCHANGED uiRet
    /\ UNCHANGED <<lifeVars, execVars, mergeVars, gitVars, mockVars, cached_content,
                   last_selected, last_mode, viewport_height, frame>>

\* terminal.draw, event::poll or event::read failed: the `?` returns and
\* the locals are dropped
TerminalError ==
    /\ uiPc \in {"draw", "poll"}
    /\ uiPc' = "done"
    /\ uiRet' = [kind |-> "Io", index |-> 0]
    /\ app' = NoApp
    /\ cached_content' = EmptyContent
    /\ last_selected' = 0
    /\ last_mode' = "Log"
    /\ viewport_height' = 0
    /\ frame' = NoFrame
    /\ confirmStart' = 0
    /\ UNCHANGED <<lifeVars, execVars, mergeVars, gitVars, mockVars>>

UiNext ==
    \/ \E n \in 0..MaxModels : SelectResultSplitView(n)
    \/ \E height \in ViewportHeights : Draw(height)
    \/ PollTimeout
    \/ \E event \in Events : HandleEvent(event)
    \/ TerminalError

UiStart == LifeIdle /\ ExecIdle /\ MergeIdle /\ GitIdle /\ MockIdle /\ UiIdle

UiSpec == UiStart /\ [][UiNext]_vars

\* C33: on a non-empty result list the selected index is always one of
\* 0..len-1: next_model at the last entry and previous_model at the first
\* leave it where it is, and the index Apply carries, and the one
\* select_result_split_view returns, is an index into the list.
C33_SelectedIndexInRange ==
    uiPc # "idle" /\ app.result_infos # <<>> =>
        LET last == Len(app.result_infos) - 1
        IN  /\ app.list_state.some
            /\ selected_index(app) \in 0..last
            /\ selected_index(app) = last => selected_index(next_model(app)) = last
            /\ selected_index(app) = 0 => selected_index(previous_model(app)) = 0
            /\ app.result.kind = "Apply" => app.result.index \in 0..last
            /\ uiRet.kind = "Ok" => uiRet.index \in 0..last

\* the last of three entries was selected and applied
C33_Witness ==
    /\ Len(app.result_infos) = MaxModels
    /\ uiRet = [kind |-> "Ok", index |-> MaxModels - 1]

\* the step is handle_event taking this event
Pressed(event) ==
    /\ uiPc = "poll"
    /\ uiPc' = "draw"
    /\ app' = handle_event(app, event, viewport_height, cached_content).app

\* C34: execute_search leaves in search_matches, in ascending order,
\* exactly the numbers of the lines of the content that hold the query
\* without regard to case; next_search_match and previous_search_match
\* step through them and wrap around at either end; and after each of
\* the three, when search_matches is not empty, search_match_index is a
\* position in it and scroll_offset is the line found there.
C34_SearchMatches ==
    [][LET searched == /\ app.input_mode = "Search"
                       /\ app.search_query # <<>>
                       /\ Pressed(Key("Enter", FALSE))
           details  == app.input_mode = "Normal" /\ app.focused_panel = "Details"
           forward  == details /\ Pressed(Key("n", FALSE))
           backward == details /\ Pressed(Key("N", FALSE))
           count    == Len(app.search_matches)
       IN  /\ searched =>
                app'.search_matches = HoldingLines[cached_content][app.search_query]
           /\ forward /\ count > 0 =>
                app'.search_match_index = (app.search_match_index + 1) % count
           /\ backward /\ count > 0 =>
                app'.search_match_index = (app.search_match_index + count - 1) % count
           /\ (searched \/ forward \/ backward) /\ app'.search_matches # <<>> =>
                /\ app'.search_match_index < Len(app'.search_matches)
                /\ app'.scroll_offset = app'.search_matches[app'.search_match_index + 1]
      ]_vars

\* C38: whatever event handle_event is given, it returns true only for
\* 'y' pressed in a confirmation: in Confirm it stores Apply of the
\* selected index, in ConfirmCancel it stores Cancel, and no other event
\* stores a result; 'n' or Esc in either confirmation goes back to Normal
\* with no result; in Confirm, ConfirmCancel and Search no event moves the
\* selection, so the index applied is the one selected when the
\* confirmation started.
C38_OnlyConfirmingEnds ==
    /\ app.input_mode = "Confirm" => selected_index(app) = confirmStart
    /\ uiRet.kind = "Ok" => uiRet.index = confirmStart
    /\ uiPc = "poll" =>
         \A event \in Events :
            LET r == handle_event(app, event, viewport_height, cached_content)
                yes == /\ event.type = "Key"
                       /\ event.kind = "Press"
                       /\ event.code \in {"y", "Y"}
                no  == /\ event.type = "Key"
                       /\ event.kind = "Press"
                       /\ event.code \in {"n", "N", "Esc"}
            IN  /\ r.ret <=> yes /\ app.input_mode \in {"Confirm", "ConfirmCancel"}
                /\ r.ret /\ app.input_mode = "Confirm" =>
                     r.app.result = [kind |-> "Apply", index |-> selected_index(app)]
                /\ r.ret /\ app.input_mode = "ConfirmCancel" => r.app.result.kind = "Cancel"
                /\ ~r.ret => r.app.result = NoSelection
                /\ no /\ app.input_mode \in {"Confirm", "ConfirmCancel"} =>
                     r.app.input_mode = "Normal"
                /\ app.input_mode \in {"Confirm", "ConfirmCancel", "Search"} =>
                     r.app.list_state = app.list_state

\* the second entry was confirmed with 'y'
C38_Witness ==
    /\ uiPc = "done"
    /\ app.input_mode = "Confirm"
    /\ app.result = [kind |-> "Apply", index |-> 1]
    /\ uiRet = [kind |-> "Ok", index |-> 1]
    /\ confirmStart = 1

\* C39: every frame drawn, the first included, shows the text of the
\* selected model in the current view mode (its log in Log, its diff in
\* Diff), and content_height is the number of lines of that text.
C39_FrameShowsSelected ==
    frame.drawn =>
        LET text == Lines[[index |-> frame.selected + 1, mode |-> frame.mode]]
        IN  /\ Lines[frame.content] = text
            /\ frame.content_height = Len(text)

====
